---- MODULE Spec2Model ----
(***************************************************************************)
(* Model of quay-scanner: the worker pool of cmd/quay-scanner/main.go      *)
(* (runWorkerPool, worker, processImage, parseImageURL) running against    *)
(* the Quay API client of internal/quay (doRequest, GetImageID,            *)
(* GetVulnerabilities).                                                    *)
(*                                                                         *)
(* Strings are sequences of tokens.  A token is a one-character string or  *)
(* a literal piece of a format string; the Go string is the concatenation  *)
(* of the tokens, and the empty Go string is the empty sequence.  A nil    *)
(* error is the empty sequence as well (every error the code builds has a  *)
(* non-empty message).  A pointer is a sequence of length at most one:     *)
(* <<>> is nil.                                                            *)
(***************************************************************************)
EXTENDS Naturals, Integers, Sequences, FiniteSets, TLC

\* ------------------------------------------------------------------------
\* Bounds of the model
\* ------------------------------------------------------------------------

\* longest input list handed to runWorkerPool
MaxJobs == 2

\* largest worker count handed to runWorkerPool
MaxWorkers == 2

\* ------------------------------------------------------------------------
\* strings package
\* ------------------------------------------------------------------------

Nil == <<>>

HasPrefix(s, prefix) ==
    /\ Len(s) >= Len(prefix)
    /\ SubSeq(s, 1, Len(prefix)) = prefix

TrimPrefix(s, prefix) ==
    IF HasPrefix(s, prefix) THEN SubSeq(s, Len(prefix) + 1, Len(s)) ELSE s

Contains(s, substr) ==
    \E k \in 0..(Len(s) - Len(substr)) : SubSeq(s, k + 1, k + Len(substr)) = substr

\* index of the first occurrence of the token sep in s, 0 when there is none
Index(s, sep) ==
    IF \E k \in 1..Len(s) : s[k] = sep
    THEN CHOOSE k \in 1..Len(s) : s[k] = sep /\ \A j \in 1..(k - 1) : s[j] # sep
    ELSE 0

\* a split at the last sep instead of the first
SplitN2AtLast(s, sep) ==
    IF Index(s, sep) = 0
    THEN <<s>>
    ELSE LET k == CHOOSE i \in 1..Len(s) :
                      s[i] = sep /\ \A j \in (i + 1)..Len(s) : s[j] # sep
         IN  <<SubSeq(s, 1, k - 1), SubSeq(s, k + 1, Len(s))>>

\* strings.SplitN(s, sep, 2): at most two parts, split at the first sep
SplitN2(s, sep) ==
    IF Index(s, sep) = 0
    THEN <<s>>
    ELSE <<SubSeq(s, 1, Index(s, sep) - 1), SubSeq(s, Index(s, sep) + 1, Len(s))>>

\* url.PathEscape: the characters a path segment cannot hold are
\* percent-encoded, every other character is kept
PathEscapeChar(c) ==
    CASE c = "/" -> "%2F"
      [] c = "?" -> "%3F"
      [] c = ";" -> "%3B"
      [] c = "," -> "%2C"
      [] c = "%" -> "%25"
      [] c = " " -> "%20"
      [] OTHER   -> c

PathEscape(s) == [k \in 1..Len(s) |-> PathEscapeChar(s[k])]

\* ------------------------------------------------------------------------
\* parseImageURL
\* ------------------------------------------------------------------------

QuayPrefix == <<"q", "u", "a", "y", ".", "i", "o", "/">>

ErrBadPrefix == <<"image URL must start with 'quay.io/'">>

ErrBadFormat(imageURL) ==
    <<"invalid image URL format. Expected 'quay.io/repository/name:tag', got '">>
        \o imageURL \o <<"'">>

ErrInvalidChars == <<"invalid characters in repository or tag">>

\* parseImageURL looking at the format before the prefix
parseImageURLFormatFirst(imageURL) ==
    LET trimmedURL == TrimPrefix(imageURL, QuayPrefix)
        parts      == SplitN2(trimmedURL, ":")
    IN  IF Len(parts) # 2 \/ parts[1] = Nil \/ parts[2] = Nil
        THEN [repo |-> Nil, tag |-> Nil, err |-> ErrBadFormat(imageURL)]
        ELSE IF ~HasPrefix(imageURL, QuayPrefix)
        THEN [repo |-> Nil, tag |-> Nil, err |-> ErrBadPrefix]
        ELSE IF \/ Contains(parts[1], <<".", ".">>)
                \/ Contains(parts[2], <<".", ".">>)
                \/ Contains(parts[2], <<"/">>)
             THEN [repo |-> parts[1], tag |-> parts[2], err |-> ErrInvalidChars]
             ELSE [repo |-> parts[1], tag |-> parts[2], err |-> Nil]

\* parseImageURL letting a '/' through in the tag
parseImageURLSlashInTag(imageURL) ==
    IF ~HasPrefix(imageURL, QuayPrefix)
    THEN [repo |-> Nil, tag |-> Nil, err |-> ErrBadPrefix]
    ELSE LET trimmedURL == TrimPrefix(imageURL, QuayPrefix)
             parts      == SplitN2(trimmedURL, ":")
         IN  IF Len(parts) # 2 \/ parts[1] = Nil \/ parts[2] = Nil
             THEN [repo |-> Nil, tag |-> Nil, err |-> ErrBadFormat(imageURL)]
             ELSE IF \/ Contains(parts[1], <<".", ".">>)
                     \/ Contains(parts[2], <<".", ".">>)
                  THEN [repo |-> parts[1], tag |-> parts[2], err |-> ErrInvalidChars]
                  ELSE [repo |-> parts[1], tag |-> parts[2], err |-> Nil]

parseImageURL(imageURL) ==
    IF ~HasPrefix(imageURL, QuayPrefix)
    THEN [repo |-> Nil, tag |-> Nil, err |-> ErrBadPrefix]
    ELSE LET trimmedURL == TrimPrefix(imageURL, QuayPrefix)
             parts      == SplitN2(trimmedURL, ":")
         IN  IF Len(parts) # 2 \/ parts[1] = Nil \/ parts[2] = Nil
             THEN [repo |-> Nil, tag |-> Nil, err |-> ErrBadFormat(imageURL)]
             ELSE IF \/ Contains(parts[1], <<".", ".">>)
                     \/ Contains(parts[2], <<".", ".">>)
                     \/ Contains(parts[2], <<"/">>)
                  THEN [repo |-> parts[1], tag |-> parts[2], err |-> ErrInvalidChars]
                  ELSE [repo |-> parts[1], tag |-> parts[2], err |-> Nil]

\* ------------------------------------------------------------------------
\* The remote API: what the HTTP round trip of doRequest yields for a
\* request path.  neterr is the transport error (Nil when a response came
\* back), status and reason make up resp.Status, body is the raw body and
\* json the value the body decodes to (Nil when it is not valid JSON).
\* ------------------------------------------------------------------------

VARIABLES
    imageURLs,      \* argument of runWorkerPool
    numWorkers,     \* argument of runWorkerPool
    mpc,            \* where the caller is inside runWorkerPool
    spawned,        \* workers started so far (w - 1 of the start loop)
    sent,           \* jobs sent so far (index of the send loop)
    jobs,           \* buffer of the jobs channel
    jobsClosed,
    results,        \* buffer of the results channel
    resultsClosed,
    allResults,     \* the map the collector fills and runWorkerPool returns
    origin,         \* history: the input index whose result each key holds
    wg,             \* counter of the workers' WaitGroup
    collectWg,      \* counter of the collector's WaitGroup
    wpc,            \* where each worker is
    wjob,           \* the jobs a worker has received and not yet answered
    wloc,           \* locals of the worker's processImage call
    cpc,            \* where the collector is
    collected,      \* i of the collector's loop
    calls,          \* history: per input index, the calls made for it
    inflight,       \* history: input indices received and not yet answered
    callIn,         \* a single call on its own: the reference and the responses
    callPc,         \* a single call on its own: where it is
    callLoc,        \* a single call on its own: locals of processImage
    callRet,        \* a single call on its own: what the last callee returned
    callLog,        \* a single call on its own: the client calls made, in order
    osArgs,         \* the command line of the process
    osEnv,          \* the environment, the files and the standard output it meets
    mainPc,         \* where main is
    mainLoc,        \* locals of main: cliCfg, appCfg, imageURLs
    mainLog,        \* history: the functions main has called, in order
    exitCode,       \* status of os.Exit, Running before
    stderr,         \* what was written to os.Stderr
    stdout,         \* what was written to os.Stdout
    quayClient      \* the *quay.Client the workers share

\* the configured API base URL of the client: c.BaseURL
BaseURL == quayClient[1].BaseURL


TagPath(repo, tag) == <<"repository/">> \o repo \o <<"/tag/">> \o PathEscape(tag)

SecurityPath(repo, imageDigest) ==
    <<"repository/">> \o repo \o <<"/image/">> \o imageDigest
        \o <<"/security?vulnerabilities=true">>

Sha256Prefix == <<"s", "h", "a", "2", "5", "6", ":">>

TagDetail(manifestDigest, imageID) ==
    [ManifestDigest |-> manifestDigest, ImageID |-> imageID]

Vulnerability(name, severity) == [Name |-> name, Severity |-> severity]

Feature(name, vulns) == [Name |-> name, Vulnerabilities |-> vulns]

SecurityReport(status, features) ==
    [Status |-> status, Data |-> [Layer |-> [Features |-> features]]]

HTTPResponse(status, reason, body, json) ==
    [neterr |-> Nil, status |-> status, reason |-> reason, body |-> body, json |-> json]

TransportError(cause) ==
    [neterr |-> cause, status |-> 0, reason |-> Nil, body |-> Nil, json |-> Nil]

\* repository a: tag 1 has a manifest digest and a finished scan;
\* repository b: tag 1 does not exist;
\* repository c: tag 1 has only a legacy image id, and no scan data;
\* repository d: tag 1 has a manifest digest, the scan is still queued;
\* anything else: the connection fails.
Remote(path) ==
    CASE path = TagPath(<<"a">>, <<"1">>) ->
            HTTPResponse(200, <<" OK">>, <<"{tag a}">>,
                <<TagDetail(Sha256Prefix \o <<"d", "1">>, Nil)>>)
      [] path = SecurityPath(<<"a">>, <<"d", "1">>) ->
            HTTPResponse(200, <<" OK">>, <<"{report a}">>,
                <<SecurityReport("scanned",
                    <<Feature("openssl", <<Vulnerability("CVE-2021-1234", "High")>>)>>)>>)
      [] path = TagPath(<<"b">>, <<"1">>) ->
            HTTPResponse(404, <<" Not Found">>, <<"{not found}">>, Nil)
      [] path = TagPath(<<"c">>, <<"1">>) ->
            HTTPResponse(200, <<" OK">>, <<"{tag c}">>,
                <<TagDetail(Nil, <<"i", "3">>)>>)
      [] path = SecurityPath(<<"c">>, <<"i", "3">>) ->
            HTTPResponse(404, <<" Not Found">>, <<"{no scan}">>, Nil)
      [] path = TagPath(<<"d">>, <<"1">>) ->
            HTTPResponse(200, <<" OK">>, <<"{tag d}">>,
                <<TagDetail(Sha256Prefix \o <<"d", "4">>, <<"i", "4">>)>>)
      [] path = SecurityPath(<<"d">>, <<"d", "4">>) ->
            HTTPResponse(200, <<" OK">>, <<"{report d}">>,
                <<SecurityReport("queued", <<>>)>>)
      [] OTHER -> TransportError(<<"connection refused">>)

\* ------------------------------------------------------------------------
\* Client
\* ------------------------------------------------------------------------

StatusOK == 200

SnippetLen == 512

\* the decimal status code as one token
StatusCode(status) ==
    CASE status = 200 -> "200"
      [] status = 201 -> "201"
      [] status = 204 -> "204"
      [] status = 404 -> "404"
      [] status = 500 -> "500"
      [] OTHER        -> "000"

Status404 == <<"status ", "404">>

\* doRequest taking every 2xx status for a success
doRequestAny2xx(path, resp) ==
    LET fullURL == BaseURL \o path
    IN  IF resp.neterr # Nil
        THEN [err    |-> <<"failed to execute request to ">> \o fullURL
                            \o <<": ">> \o resp.neterr,
              target |-> Nil]
        ELSE IF resp.status \notin 200..299
        THEN [err    |-> <<"API request to ">> \o fullURL
                            \o <<" failed with ", "status ", StatusCode(resp.status)>>
                            \o resp.reason \o <<". Body snippet: ">>
                            \o SubSeq(resp.body, 1,
                                      IF Len(resp.body) < SnippetLen
                                      THEN Len(resp.body) ELSE SnippetLen),
              target |-> Nil]
        ELSE IF resp.json = Nil
        THEN [err    |-> <<"failed to decode JSON response from ">> \o fullURL
                            \o <<": invalid character">>,
              target |-> Nil]
        ELSE [err |-> Nil, target |-> resp.json]

\* doRequest: the error (Nil on success) and the decoded target
doRequest(path, resp) ==
    LET fullURL == BaseURL \o path
    IN  IF resp.neterr # Nil
        THEN [err    |-> <<"failed to execute request to ">> \o fullURL
                            \o <<": ">> \o resp.neterr,
              target |-> Nil]
        ELSE IF resp.status # StatusOK
        THEN [err    |-> <<"API request to ">> \o fullURL
                            \o <<" failed with ", "status ", StatusCode(resp.status)>>
                            \o resp.reason \o <<". Body snippet: ">>
                            \o SubSeq(resp.body, 1,
                                      IF Len(resp.body) < SnippetLen
                                      THEN Len(resp.body) ELSE SnippetLen),
              target |-> Nil]
        ELSE IF resp.json = Nil
        THEN [err    |-> <<"failed to decode JSON response from ">> \o fullURL
                            \o <<": invalid character">>,
              target |-> Nil]
        ELSE [err |-> Nil, target |-> resp.json]

\* GetImageID looking at the legacy image id before the manifest digest
GetImageIDGivenPrefersImageID(repo, tag, resp) ==
    LET path == TagPath(repo, tag)
        r    == doRequest(path, resp)
    IN  IF r.err # Nil
        THEN IF Contains(r.err, Status404)
             THEN [digest |-> Nil,
                   err    |-> <<"tag '">> \o tag \o <<"' not found in repository '">> \o repo
                                \o <<"' (or repository is private/inaccessible)">>]
             ELSE [digest |-> Nil,
                   err    |-> <<"failed to get tag details for ">> \o repo \o <<":">>
                                \o tag \o <<": ">> \o r.err]
        ELSE LET tagDetail == r.target[1]
             IN  IF tagDetail.ImageID # Nil
                 THEN [digest |-> TrimPrefix(tagDetail.ImageID, Sha256Prefix),
                       err    |-> Nil]
                 ELSE IF tagDetail.ManifestDigest # Nil
                 THEN [digest |-> TrimPrefix(tagDetail.ManifestDigest, Sha256Prefix),
                       err    |-> Nil]
                 ELSE [digest |-> Nil,
                       err    |-> <<"could not determine image digest for tag '">> \o tag
                                    \o <<"' (no manifest_digest or docker_image_id found)">>]

\* GetImageID without the 404 case: every failed request is wrapped alike
GetImageIDGivenNoNotFound(repo, tag, resp) ==
    LET path == TagPath(repo, tag)
        r    == doRequest(path, resp)
    IN  IF r.err # Nil
        THEN [digest |-> Nil,
              err    |-> <<"failed to get tag details for ">> \o repo \o <<":">>
                           \o tag \o <<": ">> \o r.err]
        ELSE LET tagDetail == r.target[1]
             IN  IF tagDetail.ManifestDigest # Nil
                 THEN [digest |-> TrimPrefix(tagDetail.ManifestDigest, Sha256Prefix),
                       err    |-> Nil]
                 ELSE IF tagDetail.ImageID # Nil
                 THEN [digest |-> TrimPrefix(tagDetail.ImageID, Sha256Prefix),
                       err    |-> Nil]
                 ELSE [digest |-> Nil,
                       err    |-> <<"could not determine image digest for tag '">> \o tag
                                    \o <<"' (no manifest_digest or docker_image_id found)">>]

\* GetImageID, given the response its request gets: the digest and the error
GetImageIDGiven(repo, tag, resp) ==
    LET path == TagPath(repo, tag)
        r    == doRequest(path, resp)
    IN  IF r.err # Nil
        THEN IF Contains(r.err, Status404)
             THEN [digest |-> Nil,
                   err    |-> <<"tag '">> \o tag \o <<"' not found in repository '">>
                                \o repo \o <<"' (or repository is private/inaccessible)">>]
             ELSE [digest |-> Nil,
                   err    |-> <<"failed to get tag details for ">> \o repo \o <<":">>
                                \o tag \o <<": ">> \o r.err]
        ELSE LET tagDetail == r.target[1]
             IN  IF tagDetail.ManifestDigest # Nil
                 THEN [digest |-> TrimPrefix(tagDetail.ManifestDigest, Sha256Prefix),
                       err    |-> Nil]
                 ELSE IF tagDetail.ImageID # Nil
                 THEN [digest |-> TrimPrefix(tagDetail.ImageID, Sha256Prefix),
                       err    |-> Nil]
                 ELSE [digest |-> Nil,
                       err    |-> <<"could not determine image digest for tag '">> \o tag
                                    \o <<"' (no manifest_digest or docker_image_id found)">>]

\* GetImageID against the remote API
GetImageID(repo, tag) == GetImageIDGiven(repo, tag, Remote(TagPath(repo, tag)))

\* GetVulnerabilities handing out its report variable together with the error
GetVulnerabilitiesGivenPartial(repo, imageDigest, resp) ==
    LET path == SecurityPath(repo, imageDigest)
        r    == doRequest(path, resp)
    IN  IF r.err # Nil
        THEN [report |-> <<SecurityReport("", <<>>)>>,
              err    |-> <<"failed to get security info for image ">>
                           \o imageDigest \o <<": ">> \o r.err]
        ELSE [report |-> r.target, err |-> Nil]

\* GetVulnerabilities without the 404 case, and keeping what was decoded
GetVulnerabilitiesGivenNoNotFound(repo, imageDigest, resp) ==
    LET path == SecurityPath(repo, imageDigest)
        r    == doRequest(path, resp)
    IN  IF r.err # Nil
        THEN [report |-> IF resp.neterr = Nil /\ resp.status = 404
                         THEN <<SecurityReport("", <<>>)>> ELSE Nil,
              err    |-> IF resp.neterr = Nil /\ resp.status = 404 THEN Nil
                         ELSE <<"failed to get security info for image ">>
                                \o imageDigest \o <<": ">> \o r.err]
        ELSE [report |-> r.target, err |-> Nil]

\* GetVulnerabilities rejecting a report that is not "scanned"
GetVulnerabilitiesGivenScannedOnly(repo, imageDigest, resp) ==
    LET path == SecurityPath(repo, imageDigest)
        r    == doRequest(path, resp)
    IN  IF r.err # Nil
        THEN [report |-> Nil,
              err    |-> <<"failed to get security info for image ">>
                           \o imageDigest \o <<": ">> \o r.err]
        ELSE IF r.target[1].Status # "scanned"
        THEN [report |-> Nil, err |-> <<"scan not finished: ", r.target[1].Status>>]
        ELSE [report |-> r.target, err |-> Nil]

\* GetVulnerabilities, given the response its request gets: the report
\* pointer and the error
GetVulnerabilitiesGiven(repo, imageDigest, resp) ==
    LET path == SecurityPath(repo, imageDigest)
        r    == doRequest(path, resp)
    IN  IF r.err # Nil
        THEN IF Contains(r.err, Status404)
             THEN [report |-> Nil,
                   err    |-> <<"security information not found for image digest '">>
                                \o imageDigest \o <<"' in repository '">> \o repo
                                \o <<"' (image may not exist or scan data unavailable)">>]
             ELSE [report |-> Nil,
                   err    |-> <<"failed to get security info for image ">>
                                \o imageDigest \o <<": ">> \o r.err]
        ELSE [report |-> r.target, err |-> Nil]

\* GetVulnerabilities against the remote API
GetVulnerabilities(repo, imageDigest) ==
    GetVulnerabilitiesGiven(repo, imageDigest, Remote(SecurityPath(repo, imageDigest)))

\* ------------------------------------------------------------------------
\* processImage, one step per call it makes
\* ------------------------------------------------------------------------

ImageScanResult(imageURL, report, error) ==
    [ImageURL |-> imageURL, Report |-> report, Error |-> error]

\* locals of a processImage call; next says where the call is:
\* "getid" before GetImageID, "getvuln" before GetVulnerabilities,
\* "return" when result is what the call returns
Locals(next, result, repo, tag, imageID) ==
    [next |-> next, result |-> result, repo |-> repo, tag |-> tag, imageID |-> imageID]

\* processImage going on to GetImageID after a failed parse
processImageParseContinues(imageURL) ==
    LET result == ImageScanResult(imageURL, Nil, Nil)
        p      == parseImageURL(imageURL)
    IN  IF p.err # Nil
        THEN Locals("getid", [result EXCEPT !.Error = <<"Parsing URL failed: ">> \o p.err],
                    p.repo, p.tag, Nil)
        ELSE Locals("getid", result, p.repo, p.tag, Nil)

\* processImageParse recording that parsing failed without the parser's cause
processImageParseDropsCause(imageURL) ==
    LET result == ImageScanResult(imageURL, Nil, Nil)
        p      == parseImageURL(imageURL)
    IN  IF p.err # Nil
        THEN Locals("return", [result EXCEPT !.Error = <<"Parsing URL failed">>],
                    p.repo, p.tag, Nil)
        ELSE Locals("getid", result, p.repo, p.tag, Nil)

\* main.go:253-259
processImageParse(imageURL) ==
    LET result == ImageScanResult(imageURL, Nil, Nil)
        p      == parseImageURL(imageURL)
    IN  IF p.err # Nil
        THEN Locals("return", [result EXCEPT !.Error = <<"Parsing URL failed: ">> \o p.err],
                    p.repo, p.tag, Nil)
        ELSE Locals("getid", result, p.repo, p.tag, Nil)

\* processImageGetID forgetting to record the error of GetImageID
processImageGetIDNoError(l) ==
    LET g == GetImageID(l.repo, l.tag)
    IN  IF g.err # Nil \/ g.digest = Nil
        THEN [l EXCEPT !.next = "return"]
        ELSE [l EXCEPT !.next = "getvuln", !.imageID = g.digest]

\* processImage asking for the report of the tag instead of the digest
processImageAfterGetIDKeepsTag(l, g) ==
        IF g.err # Nil
        THEN [l EXCEPT !.next = "return",
                       !.result.Error = <<"Getting image ID failed: ">> \o g.err]
        ELSE IF g.digest = Nil
        THEN [l EXCEPT !.next = "return",
                       !.result.Error = <<"Could not find image ID for tag '">> \o l.tag
                                            \o <<"' (tag might not exist)">>]
        ELSE [l EXCEPT !.next = "getvuln", !.imageID = l.tag]

\* processImageAfterGetID without the check of an empty digest
processImageAfterGetIDNoEmptyCheck(l, g) ==
        IF g.err # Nil
        THEN [l EXCEPT !.next = "return",
                       !.result.Error = <<"Getting image ID failed: ">> \o g.err]
        ELSE [l EXCEPT !.next = "getvuln", !.imageID = g.digest]

\* main.go:262-271: what processImage does with the return g of GetImageID
processImageAfterGetID(l, g) ==
        IF g.err # Nil
        THEN [l EXCEPT !.next = "return",
                       !.result.Error = <<"Getting image ID failed: ">> \o g.err]
        ELSE IF g.digest = Nil
        THEN [l EXCEPT !.next = "return",
                       !.result.Error = <<"Could not find image ID for tag '">> \o l.tag
                                            \o <<"' (tag might not exist)">>]
        ELSE [l EXCEPT !.next = "getvuln", !.imageID = g.digest]

\* main.go:261-271
processImageGetID(l) == processImageAfterGetID(l, GetImageID(l.repo, l.tag))

\* main.go:274-284: what processImage does with the return v of
\* GetVulnerabilities
processImageAfterGetVulns(l, v) ==
        IF v.err # Nil
        THEN [l EXCEPT !.next = "return",
                       !.result.Error = <<"Getting vulnerabilities failed: ">> \o v.err,
                       !.result.Report = IF v.report # Nil THEN v.report ELSE @]
        ELSE [l EXCEPT !.next = "return", !.result.Report = v.report]

\* main.go:273-284
processImageGetVulns(l) ==
    processImageAfterGetVulns(l, GetVulnerabilities(l.repo, l.imageID))

\* processImage as a whole: the result it returns
processImage(imageURL) ==
    LET l1 == processImageParse(imageURL)
        l2 == IF l1.next = "getid" THEN processImageGetID(l1) ELSE l1
        l3 == IF l2.next = "getvuln" THEN processImageGetVulns(l2) ELSE l2
    IN  l3.result

\* ------------------------------------------------------------------------
\* runWorkerPool: the caller (main goroutine), the workers, the collector
\* ------------------------------------------------------------------------

RefA == QuayPrefix \o <<"a", ":", "1">>

RefB == QuayPrefix \o <<"b", ":", "1">>

RefC == QuayPrefix \o <<"c", ":", "1">>

RefBad == <<"a", ":", "1">>

\* the references an input list is drawn from
Refs == {RefA, RefB, RefC, RefBad}

BoundedSeqs(S, n) == UNION {[1..k -> S] : k \in 0..n}

\* goroutine ids of the workers; one more than the largest worker count, so
\* that a pool starting one worker too many is a state of the model
WorkerIds == 1..(MaxWorkers + 1)

vars == <<imageURLs, numWorkers, mpc, spawned, sent, jobs, jobsClosed, results,
          resultsClosed, allResults, origin, wg, collectWg, wpc, wjob, wloc,
          cpc, collected, calls, inflight, callIn, callPc, callLoc, callRet,
          callLog, osArgs, osEnv, mainPc, mainLoc, mainLog, exitCode, stderr,
          stdout, quayClient>>

mainVars == <<osArgs, osEnv, mainPc, mainLoc, mainLog, exitCode, stderr, stdout,
              quayClient>>

callVars == <<callIn, callPc, callLoc, callRet, callLog>>

\* main.go:188
numJobs == Len(imageURLs)

\* channels made one slot too small
ChanCapOneShort(n) == n - 1

\* main.go:189-190: both channels are made with capacity numJobs
ChanCap(n) == n

\* a start loop running once too often
WorkersToStartOffByOne(n) == n + 1

\* main.go:196: the start loop runs for w = 1..numWorkers
WorkersToStart(n) == n

NoLocals == Locals("none", ImageScanResult(Nil, Nil, Nil), Nil, Nil, Nil)

NoCalls == [processImage |-> 0, GetImageID |-> 0, GetVulnerabilities |-> 0]

\* a map that keeps the first value stored under a key
MapPutIfAbsent(m, key, value) ==
    [k \in (DOMAIN m) \cup {key} |-> IF k \in DOMAIN m THEN m[k] ELSE value]

\* m[key] = value on a Go map
MapPut(m, key, value) ==
    [k \in (DOMAIN m) \cup {key} |-> IF k = key THEN value ELSE m[k]]

\* ------------------------------------------------------------------------
\* The program around the pool: command line, configuration file, input
\* file, client construction and output (main of cmd/quay-scanner)
\* ------------------------------------------------------------------------

HasSuffix(s, suffix) ==
    /\ Len(s) >= Len(suffix)
    /\ SubSeq(s, Len(s) - Len(suffix) + 1, Len(s)) = suffix

\* strings.ToLower on a file extension
ToLower(ext) ==
    CASE ext = ".JSON" -> ".json"
      [] ext = ".YML"  -> ".yml"
      [] OTHER         -> ext

\* filepath.Ext: the last element of a name when it starts with a dot
Ext(name) ==
    IF name # Nil /\ name[Len(name)] \in {".JSON", ".json", ".yaml", ".yml", ".YML", ".txt"}
    THEN name[Len(name)]
    ELSE ""

\* exitCode while the process runs
Running == -1

\* config.go:27-35
DefaultConfig ==
    [APIBaseURL     |-> <<"https://", "quay.io/api/v1", "/">>,
     TimeoutSeconds |-> 15,
     UserAgent      |-> <<"golang-quay-vuln-scanner/1.1">>]

\* config.go:38-44, in seconds
GetTimeout(qc) == IF qc.TimeoutSeconds <= 0 THEN 5 ELSE qc.TimeoutSeconds

\* config.go:95-98
isValidURL(u) ==
    Len(u) > 0 /\ (HasPrefix(u, <<"http://">>) \/ HasPrefix(u, <<"https://">>))

\* a configuration file: state is "missing", "unreadable", "unparsable" or
\* "yaml"; keys are the keys of the quay section the YAML document holds
ConfigFile(state, keys, url, timeout, agent) ==
    [state |-> state, keys |-> keys, api_base_url |-> url,
     timeout_seconds |-> timeout, user_agent |-> agent]

\* yaml.Unmarshal into a struct that holds the defaults: a key of the
\* document replaces the field, an absent key leaves it
Unmarshal(file, cfg) ==
    [APIBaseURL     |-> IF "api_base_url" \in file.keys
                        THEN file.api_base_url ELSE cfg.APIBaseURL,
     TimeoutSeconds |-> IF "timeout_seconds" \in file.keys
                        THEN file.timeout_seconds ELSE cfg.TimeoutSeconds,
     UserAgent      |-> IF "user_agent" \in file.keys
                        THEN file.user_agent ELSE cfg.UserAgent]

\* config.go:49-92: the configuration, the error and the lines on stderr
LoadConfig(file) ==
    IF file.state = "missing"
    THEN [cfg |-> DefaultConfig, err |-> Nil,
          out |-> <<"Info: Config file not found, using default settings.">>]
    ELSE IF file.state = "unreadable"
    THEN [cfg |-> DefaultConfig,
          err |-> <<"failed to read config file: ", "permission denied">>,
          out |-> <<>>]
    ELSE IF file.state = "unparsable"
    THEN [cfg |-> DefaultConfig,
          err |-> <<"failed to parse YAML config file: ", "yaml: did not find expected key">>,
          out |-> <<>>]
    ELSE LET cfg0 == Unmarshal(file, DefaultConfig)
             cfg1 == IF cfg0.APIBaseURL = Nil
                     THEN [cfg0 EXCEPT !.APIBaseURL = DefaultConfig.APIBaseURL]
                     ELSE cfg0
             cfg2 == IF cfg1.TimeoutSeconds <= 0
                     THEN [cfg1 EXCEPT !.TimeoutSeconds = DefaultConfig.TimeoutSeconds]
                     ELSE cfg1
         IN  [cfg |-> cfg2, err |-> Nil,
              out |-> (IF cfg0.APIBaseURL = Nil
                       THEN <<"Warning: quay.api_base_url is empty, using default">>
                       ELSE <<>>)
                      \o (IF ~isValidURL(cfg1.APIBaseURL)
                          THEN <<"Warning: quay.api_base_url might be invalid">>
                          ELSE <<>>)
                      \o (IF cfg1.TimeoutSeconds <= 0
                          THEN <<"Warning: quay.timeout_seconds must be positive, using default">>
                          ELSE <<>>)
                      \o <<"Info: Loaded configuration">>]

\* url.Parse: a string that starts with a colon has no scheme
URLParseError(rawURL) ==
    IF rawURL # Nil /\ rawURL[1] = ":" THEN <<"missing protocol scheme">> ELSE Nil

\* formatter.go:137-171: the pointer to the new client and the error
NewClient(baseURL, token, timeout, userAgent) ==
    IF baseURL = Nil
    THEN [client |-> Nil, err |-> <<"quay API base URL cannot be empty">>]
    ELSE IF URLParseError(baseURL) # Nil
    THEN [client |-> Nil,
          err    |-> <<"invalid base URL '">> \o baseURL \o <<"': ">>
                       \o URLParseError(baseURL)]
    ELSE [client |-> <<[BaseURL   |-> IF HasSuffix(baseURL, <<"/">>)
                                      THEN baseURL ELSE baseURL \o <<"/">>,
                        Timeout   |-> IF timeout <= 0 THEN 10 ELSE timeout,
                        Token     |-> token,
                        UserAgent |-> IF userAgent = Nil
                                      THEN <<"golang-quay-scanner/unknown-version">>
                                      ELSE userAgent]>>,
          err    |-> Nil]

\* the command line: syntax is "ok" when flag.Parse accepts it, the other
\* fields are the values of the flags
CommandLine(syntax, image, file, format, token, workers) ==
    [syntax |-> syntax, ImageURL |-> image, InputFile |-> file,
     OutputFormat |-> format, Token |-> token, NumWorkers |-> workers]

CliConfig(image, file, format, token, workers) ==
    [ImageURL |-> image, InputFile |-> file, OutputFormat |-> format,
     Token |-> token, NumWorkers |-> workers]

NoCliConfig == CliConfig(Nil, Nil, Nil, Nil, 0)

\* a parseFlags that lets any worker count through
parseFlagsAnyWorkers(args, env) ==
    LET cfg == CliConfig(args.ImageURL, args.InputFile, args.OutputFormat,
                         args.Token, args.NumWorkers)
    IN  IF args.syntax # "ok"
        THEN [cfg |-> NoCliConfig, err |-> Nil, exit |-> 2]
        ELSE IF cfg.ImageURL = Nil /\ cfg.InputFile = Nil
        THEN [cfg |-> cfg, err |-> <<"either -image or -file flag is required">>,
              exit |-> Running]
        ELSE IF cfg.ImageURL # Nil /\ cfg.InputFile # Nil
        THEN [cfg |-> cfg, err |-> <<"-image and -file flags are mutually exclusive">>,
              exit |-> Running]
        ELSE IF cfg.OutputFormat # <<"json">> /\ cfg.OutputFormat # <<"human">>
        THEN [cfg |-> cfg,
              err |-> <<"invalid -format value '">> \o cfg.OutputFormat
                        \o <<"'. Must be 'json' or 'human'">>,
              exit |-> Running]
        ELSE [cfg  |-> IF cfg.Token = Nil
                       THEN [cfg EXCEPT !.Token = env.QUAY_TOKEN] ELSE cfg,
              err  |-> Nil,
              exit |-> Running]

\* build.sh:121-181 (main.go:86-133): flag.Parse ends the process with
\* status 2 on a command line it cannot parse (the flag set is ExitOnError);
\* otherwise the flags are validated and the token falls back to QUAY_TOKEN
parseFlags(args, env) ==
    LET cfg == CliConfig(args.ImageURL, args.InputFile, args.OutputFormat,
                         args.Token, args.NumWorkers)
    IN  IF args.syntax # "ok"
        THEN [cfg |-> NoCliConfig, err |-> Nil, exit |-> 2]
        ELSE IF cfg.ImageURL = Nil /\ cfg.InputFile = Nil
        THEN [cfg |-> cfg, err |-> <<"either -image or -file flag is required">>,
              exit |-> Running]
        ELSE IF cfg.ImageURL # Nil /\ cfg.InputFile # Nil
        THEN [cfg |-> cfg, err |-> <<"-image and -file flags are mutually exclusive">>,
              exit |-> Running]
        ELSE IF cfg.OutputFormat # <<"json">> /\ cfg.OutputFormat # <<"human">>
        THEN [cfg |-> cfg,
              err |-> <<"invalid -format value '">> \o cfg.OutputFormat
                        \o <<"'. Must be 'json' or 'human'">>,
              exit |-> Running]
        ELSE IF cfg.NumWorkers <= 0
        THEN [cfg |-> cfg, err |-> <<"-workers must be a positive number">>,
              exit |-> Running]
        ELSE [cfg  |-> IF cfg.Token = Nil
                       THEN [cfg EXCEPT !.Token = env.QUAY_TOKEN] ELSE cfg,
              err  |-> Nil,
              exit |-> Running]

\* an input file: readErr is the error of os.ReadFile, valid says whether the
\* content parses, hasImages whether the images key is there and not null
InputFile(readErr, valid, hasImages, images) ==
    [readErr |-> readErr, valid |-> valid, hasImages |-> hasImages,
     images |-> images]

\* build.sh:193-238 (main.go:147-184)
loadImageURLs(cliCfg, file) ==
    IF cliCfg.ImageURL # Nil
    THEN [urls |-> <<cliCfg.ImageURL>>, err |-> Nil]
    ELSE IF file.readErr # Nil
    THEN [urls |-> <<>>,
          err  |-> <<"reading input file '">> \o cliCfg.InputFile \o <<"': ">>
                     \o file.readErr]
    ELSE LET fileExt == ToLower(Ext(cliCfg.InputFile))
         IN  IF fileExt = ".json"
             THEN IF ~file.valid
                  THEN [urls |-> <<>>,
                        err  |-> <<"parsing JSON file '">> \o cliCfg.InputFile
                                   \o <<"': ", "invalid character">>]
                  ELSE [urls |-> IF file.hasImages THEN file.images ELSE <<>>,
                        err  |-> Nil]
             ELSE IF fileExt \in {".yaml", ".yml"}
             THEN IF ~file.valid
                  THEN [urls |-> <<>>,
                        err  |-> <<"parsing YAML file '">> \o cliCfg.InputFile
                                   \o <<"': ", "yaml: did not find expected key">>]
                  ELSE [urls |-> IF file.hasImages THEN file.images ELSE <<>>,
                        err  |-> Nil]
             ELSE [urls |-> <<>>,
                   err  |-> <<"unsupported file extension '", fileExt,
                              "'. Use .json, .yaml, or .yml">>]

\* build.sh (main.go:311-326) and formatter.go:16-23: only the JSON encoder
\* reports a failed write; the human-readable formatter returns nothing
outputResults(res, format, writable) ==
    IF format = <<"json">>
    THEN IF writable
         THEN [err |-> Nil, out |-> <<[format |-> "json", results |-> res]>>]
         ELSE [err |-> <<"formatting JSON output: ", "failed to marshal results to JSON: ",
                         "write /dev/stdout: broken pipe">>,
               out |-> <<>>]
    ELSE IF format = <<"human">>
    THEN [err |-> Nil,
          out |-> IF writable THEN <<[format |-> "human", results |-> res]>> ELSE <<>>]
    ELSE [err |-> <<"internal error: unknown output format '">> \o format \o <<"'">>,
          out |-> <<>>]

MainLocals(cliCfg, appCfg, urls) ==
    [cliCfg |-> cliCfg, appCfg |-> appCfg, imageURLs |-> urls]

NoMainLocals == MainLocals(NoCliConfig, DefaultConfig, <<>>)

\* the client main builds when there is no configuration file and no token
DefaultClient ==
    NewClient(DefaultConfig.APIBaseURL, Nil, GetTimeout(DefaultConfig),
              DefaultConfig.UserAgent).client

\* no process around the pool: the client is the default one
MainIdle ==
    /\ osArgs = Nil
    /\ osEnv = Nil
    /\ mainPc = "none"
    /\ mainLoc = NoMainLocals
    /\ mainLog = <<>>
    /\ exitCode = Running
    /\ stderr = <<>>
    /\ stdout = <<>>
    /\ quayClient = DefaultClient

Init ==
    /\ MainIdle
    /\ imageURLs \in BoundedSeqs(Refs, MaxJobs)
    /\ numWorkers \in 1..MaxWorkers
    /\ mpc = "start"
    /\ spawned = 0
    /\ sent = 0
    /\ jobs = <<>>
    /\ jobsClosed = FALSE
    /\ results = <<>>
    /\ resultsClosed = FALSE
    /\ allResults = [k \in {} |-> NoLocals.result]
    /\ origin = [k \in {} |-> 0]
    /\ wg = 0
    /\ collectWg = 0
    /\ wpc = [w \in WorkerIds |-> "unstarted"]
    /\ wjob = [w \in WorkerIds |-> <<>>]
    /\ wloc = [w \in WorkerIds |-> NoLocals]
    /\ cpc = "unstarted"
    /\ collected = 0
    /\ calls = [k \in 1..Len(imageURLs) |-> NoCalls]
    /\ inflight = {}
    /\ callIn = Nil
    /\ callPc = "none"
    /\ callLoc = NoLocals
    /\ callRet = Nil
    /\ callLog = <<>>

\* main.go:196-200: wg.Add(1); go worker(...)
MainStartWorker ==
    /\ mpc = "start"
    /\ spawned < WorkersToStart(numWorkers)
    /\ wg' = wg + 1
    /\ wpc' = [wpc EXCEPT ![spawned + 1] = "range"]
    /\ spawned' = spawned + 1
    /\ mpc' = IF spawned + 1 < WorkersToStart(numWorkers) THEN "start" ELSE "send"
    /\ UNCHANGED <<mainVars, callVars, imageURLs, numWorkers, sent, jobs, jobsClosed, results,
                   resultsClosed, allResults, origin, collectWg, wjob, wloc,
                   cpc, collected, calls, inflight>>

\* main.go:204-206: jobs <- url
MainSendJob ==
    /\ mpc = "send"
    /\ sent < numJobs
    /\ ~jobsClosed
    /\ Len(jobs) < ChanCap(numJobs)
    /\ jobs' = Append(jobs, [url |-> imageURLs[sent + 1], idx |-> sent + 1])
    /\ sent' = sent + 1
    /\ UNCHANGED <<mainVars, callVars, imageURLs, numWorkers, mpc, spawned, jobsClosed, results,
                   resultsClosed, allResults, origin, wg, collectWg, wpc, wjob,
                   wloc, cpc, collected, calls, inflight>>

\* the caller forgetting close(jobs)
MainCloseJobsForgotten ==
    /\ mpc = "send"
    /\ sent = numJobs
    /\ mpc' = "collect"
    /\ UNCHANGED <<mainVars, callVars, imageURLs, numWorkers, spawned, sent, jobs, jobsClosed,
                   results, resultsClosed, allResults, origin, wg, collectWg,
                   wpc, wjob, wloc, cpc, collected, calls, inflight>>

\* main.go:207: close(jobs)
MainCloseJobs ==
    /\ mpc = "send"
    /\ sent = numJobs
    /\ jobsClosed' = TRUE
    /\ mpc' = "collect"
    /\ UNCHANGED <<mainVars, callVars, imageURLs, numWorkers, spawned, sent, jobs, results,
                   resultsClosed, allResults, origin, wg, collectWg, wpc, wjob,
                   wloc, cpc, collected, calls, inflight>>

\* main.go:213-215: collectWg.Add(1); go func() {...}()
MainStartCollector ==
    /\ mpc = "collect"
    /\ collectWg' = collectWg + 1
    /\ cpc' = "loop"
    /\ mpc' = "wgWait"
    /\ UNCHANGED <<mainVars, callVars, imageURLs, numWorkers, spawned, sent, jobs, jobsClosed,
                   results, resultsClosed, allResults, origin, wg, wpc, wjob,
                   wloc, collected, calls, inflight>>

\* the caller not waiting for the workers
MainWaitWorkersSkipped ==
    /\ mpc = "wgWait"
    /\ mpc' = "collectWait"
    /\ UNCHANGED <<mainVars, callVars, imageURLs, numWorkers, spawned, sent, jobs, jobsClosed,
                   results, resultsClosed, allResults, origin, wg, collectWg,
                   wpc, wjob, wloc, cpc, collected, calls, inflight>>

\* main.go:229: wg.Wait()
MainWaitWorkers ==
    /\ mpc = "wgWait"
    /\ wg = 0
    /\ mpc' = "collectWait"
    /\ UNCHANGED <<mainVars, callVars, imageURLs, numWorkers, spawned, sent, jobs, jobsClosed,
                   results, resultsClosed, allResults, origin, wg, collectWg,
                   wpc, wjob, wloc, cpc, collected, calls, inflight>>

\* the caller not waiting for the collector
MainWaitCollectorSkipped ==
    /\ mpc = "collectWait"
    /\ mpc' = "closeResults"
    /\ UNCHANGED <<mainVars, callVars, imageURLs, numWorkers, spawned, sent, jobs, jobsClosed,
                   results, resultsClosed, allResults, origin, wg, collectWg,
                   wpc, wjob, wloc, cpc, collected, calls, inflight>>

\* main.go:233: collectWg.Wait()
MainWaitCollector ==
    /\ mpc = "collectWait"
    /\ collectWg = 0
    /\ mpc' = "closeResults"
    /\ UNCHANGED <<mainVars, callVars, imageURLs, numWorkers, spawned, sent, jobs, jobsClosed,
                   results, resultsClosed, allResults, origin, wg, collectWg,
                   wpc, wjob, wloc, cpc, collected, calls, inflight>>

\* the caller closing the results channel and returning without either wait
MainReturnBeforeWaits ==
    /\ mpc \in {"wgWait", "collectWait", "closeResults"}
    /\ resultsClosed' = TRUE
    /\ mpc' = "returned"
    /\ UNCHANGED <<mainVars, callVars, imageURLs, numWorkers, spawned, sent, jobs, jobsClosed,
                   results, allResults, origin, wg, collectWg, wpc, wjob, wloc,
                   cpc, collected, calls, inflight>>

\* main.go:234-236: close(results); return allResults
MainReturn ==
    /\ mpc = "closeResults"
    /\ resultsClosed' = TRUE
    /\ mpc' = "returned"
    /\ UNCHANGED <<mainVars, callVars, imageURLs, numWorkers, spawned, sent, jobs, jobsClosed,
                   results, allResults, origin, wg, collectWg, wpc, wjob, wloc,
                   cpc, collected, calls, inflight>>

Main ==
    \/ MainStartWorker
    \/ MainSendJob
    \/ MainCloseJobs
    \/ MainStartCollector
    \/ MainWaitWorkers
    \/ MainWaitCollector
    \/ MainReturn

\* main.go:218-220: result := <-results; allResults[result.ImageURL] = result
CollectorRecv ==
    /\ cpc = "loop"
    /\ collected < numJobs
    /\ results # <<>>
    /\ allResults' = MapPut(allResults, Head(results).res.ImageURL, Head(results).res)
    /\ origin' = MapPut(origin, Head(results).res.ImageURL, Head(results).idx)
    /\ results' = Tail(results)
    /\ collected' = collected + 1
    /\ UNCHANGED <<mainVars, callVars, imageURLs, numWorkers, mpc, spawned, sent, jobs, jobsClosed,
                   resultsClosed, wg, collectWg, wpc, wjob, wloc, cpc, calls,
                   inflight>>

\* a collector that also stops as soon as no worker is left
CollectorDoneWithWorkers ==
    /\ cpc = "loop"
    /\ (collected >= numJobs \/ wg = 0)
    /\ cpc' = "done"
    /\ collectWg' = collectWg - 1
    /\ UNCHANGED <<mainVars, callVars, imageURLs, numWorkers, mpc, spawned, sent, jobs, jobsClosed,
                   results, resultsClosed, allResults, origin, wg, wpc, wjob,
                   wloc, collected, calls, inflight>>

\* main.go:216, 218, 224: the loop ends, the deferred collectWg.Done() runs
CollectorDone ==
    /\ cpc = "loop"
    /\ collected >= numJobs
    /\ cpc' = "done"
    /\ collectWg' = collectWg - 1
    /\ UNCHANGED <<mainVars, callVars, imageURLs, numWorkers, mpc, spawned, sent, jobs, jobsClosed,
                   results, resultsClosed, allResults, origin, wg, wpc, wjob,
                   wloc, collected, calls, inflight>>

Collector == CollectorRecv \/ CollectorDone

\* a receive that leaves the job in the channel
WorkerRecvPeeks(w) ==
    /\ wpc[w] = "range"
    /\ jobs # <<>>
    /\ wjob' = [wjob EXCEPT ![w] = Append(@, Head(jobs))]
    /\ inflight' = inflight \cup {Head(jobs).idx}
    /\ wpc' = [wpc EXCEPT ![w] = "process"]
    /\ UNCHANGED <<mainVars, callVars, imageURLs, numWorkers, mpc, spawned, sent, jobs,
                   jobsClosed, results, resultsClosed, allResults, origin, wg,
                   collectWg, wloc, cpc, collected, calls>>

\* a receive that takes the job sent last
WorkerRecvNewest(w) ==
    /\ wpc[w] = "range"
    /\ jobs # <<>>
    /\ wjob' = [wjob EXCEPT ![w] = Append(@, jobs[Len(jobs)])]
    /\ jobs' = SubSeq(jobs, 1, Len(jobs) - 1)
    /\ inflight' = inflight \cup {jobs[Len(jobs)].idx}
    /\ wpc' = [wpc EXCEPT ![w] = "process"]
    /\ UNCHANGED <<mainVars, callVars, imageURLs, numWorkers, mpc, spawned, sent,
                   jobsClosed, results, resultsClosed, allResults, origin, wg,
                   collectWg, wloc, cpc, collected, calls>>

\* main.go:242: for imageURL := range jobs, a job is there
WorkerRecv(w) ==
    /\ wpc[w] = "range"
    /\ jobs # <<>>
    /\ wjob' = [wjob EXCEPT ![w] = Append(@, Head(jobs))]
    /\ jobs' = Tail(jobs)
    /\ inflight' = inflight \cup {Head(jobs).idx}
    /\ wpc' = [wpc EXCEPT ![w] = "process"]
    /\ UNCHANGED <<mainVars, callVars, imageURLs, numWorkers, mpc, spawned, sent, jobsClosed,
                   results, resultsClosed, allResults, origin, wg, collectWg,
                   wloc, cpc, collected, calls>>

\* a worker that does not test the ok flag of the receive: on the closed,
\* drained channel it gets the zero value "" and processes it
WorkerExitZeroValue(w) ==
    /\ wpc[w] = "range"
    /\ jobs = <<>>
    /\ jobsClosed
    /\ wjob' = [wjob EXCEPT ![w] = Append(@, [url |-> Nil, idx |-> 0])]
    /\ wpc' = [wpc EXCEPT ![w] = "process"]
    /\ UNCHANGED <<mainVars, callVars, imageURLs, numWorkers, mpc, spawned, sent, jobs, jobsClosed,
                   results, resultsClosed, allResults, origin, wg, collectWg,
                   wloc, cpc, collected, calls, inflight>>

\* a worker that leaves as soon as it finds the channel empty
WorkerExitOnEmpty(w) ==
    /\ wpc[w] = "range"
    /\ jobs = <<>>
    /\ wpc' = [wpc EXCEPT ![w] = "exited"]
    /\ wg' = wg - 1
    /\ UNCHANGED <<mainVars, callVars, imageURLs, numWorkers, mpc, spawned, sent, jobs,
                   jobsClosed, results, resultsClosed, allResults, origin, collectWg,
                   wjob, wloc, cpc, collected, calls, inflight>>

\* main.go:241-242, 248: jobs is closed and drained, the deferred wg.Done() runs
WorkerExit(w) ==
    /\ wpc[w] = "range"
    /\ jobs = <<>>
    /\ jobsClosed
    /\ wpc' = [wpc EXCEPT ![w] = "exited"]
    /\ wg' = wg - 1
    /\ UNCHANGED <<mainVars, callVars, imageURLs, numWorkers, mpc, spawned, sent, jobs, jobsClosed,
                   results, resultsClosed, allResults, origin, collectWg, wjob,
                   wloc, cpc, collected, calls, inflight>>

\* where the worker goes after a step of processImage
AfterStep(l) == IF l.next = "return" THEN "send" ELSE l.next

\* main.go:244, 253-259: processImage is entered and the reference parsed
WorkerParse(w) ==
    /\ wpc[w] = "process"
    /\ wloc' = [wloc EXCEPT ![w] = processImageParse(wjob[w][1].url)]
    /\ wpc' = [wpc EXCEPT ![w] = AfterStep(wloc'[w])]
    /\ calls' = [calls EXCEPT ![wjob[w][1].idx].processImage = @ + 1]
    /\ UNCHANGED <<mainVars, callVars, imageURLs, numWorkers, mpc, spawned, sent, jobs, jobsClosed,
                   results, resultsClosed, allResults, origin, wg, collectWg,
                   wjob, cpc, collected, inflight>>

\* a GetImageID that resolves the request path into the client's own BaseURL
WorkerGetImageIDRebasesClient(w) ==
    /\ wpc[w] = "getid"
    /\ wloc' = [wloc EXCEPT ![w] = processImageGetID(wloc[w])]
    /\ wpc' = [wpc EXCEPT ![w] = AfterStep(wloc'[w])]
    /\ calls' = [calls EXCEPT ![wjob[w][1].idx].GetImageID = @ + 1]
    /\ quayClient' = <<[quayClient[1] EXCEPT
                          !.BaseURL = @ \o TagPath(wloc[w].repo, wloc[w].tag)]>>
    /\ UNCHANGED <<osArgs, osEnv, mainPc, mainLoc, mainLog, exitCode, stderr, stdout,
                   callVars, imageURLs, numWorkers, mpc, spawned, sent, jobs, jobsClosed,
                   results, resultsClosed, allResults, origin, wg, collectWg,
                   wjob, cpc, collected, inflight>>

\* main.go:261-271: the first remote call
WorkerGetImageID(w) ==
    /\ wpc[w] = "getid"
    /\ wloc' = [wloc EXCEPT ![w] = processImageGetID(wloc[w])]
    /\ wpc' = [wpc EXCEPT ![w] = AfterStep(wloc'[w])]
    /\ calls' = [calls EXCEPT ![wjob[w][1].idx].GetImageID = @ + 1]
    /\ UNCHANGED <<mainVars, callVars, imageURLs, numWorkers, mpc, spawned, sent, jobs, jobsClosed,
                   results, resultsClosed, allResults, origin, wg, collectWg,
                   wjob, cpc, collected, inflight>>

\* main.go:273-284: the second remote call
WorkerGetVulnerabilities(w) ==
    /\ wpc[w] = "getvuln"
    /\ wloc' = [wloc EXCEPT ![w] = processImageGetVulns(wloc[w])]
    /\ wpc' = [wpc EXCEPT ![w] = AfterStep(wloc'[w])]
    /\ calls' = [calls EXCEPT ![wjob[w][1].idx].GetVulnerabilities = @ + 1]
    /\ UNCHANGED <<mainVars, callVars, imageURLs, numWorkers, mpc, spawned, sent, jobs, jobsClosed,
                   results, resultsClosed, allResults, origin, wg, collectWg,
                   wjob, cpc, collected, inflight>>

\* the result a fail-fast worker reports for a job it cancels
Cancelled(job) ==
    [res |-> ImageScanResult(job.url, Nil, <<"cancelled">>), idx |-> job.idx]

\* a fail-fast worker: after a failed image it cancels the jobs still queued
WorkerSendFailFast(w) ==
    /\ wpc[w] = "send"
    /\ ~resultsClosed
    /\ Len(results) < ChanCap(numJobs)
    /\ IF wloc[w].result.Error # Nil
       THEN /\ results' = Append(results, [res |-> wloc[w].result, idx |-> wjob[w][1].idx])
                            \o [k \in 1..Len(jobs) |-> Cancelled(jobs[k])]
            /\ jobs' = <<>>
       ELSE /\ results' = Append(results, [res |-> wloc[w].result, idx |-> wjob[w][1].idx])
            /\ jobs' = jobs
    /\ inflight' = inflight \ {wjob[w][1].idx}
    /\ wjob' = [wjob EXCEPT ![w] = Tail(@)]
    /\ wloc' = [wloc EXCEPT ![w] = NoLocals]
    /\ wpc' = [wpc EXCEPT ![w] = "range"]
    /\ UNCHANGED <<mainVars, callVars, imageURLs, numWorkers, mpc, spawned, sent, jobsClosed,
                   resultsClosed, allResults, origin, wg, collectWg, cpc,
                   collected, calls>>

\* a worker that stores its result in the map itself
WorkerSendWritesMap(w) ==
    /\ wpc[w] = "send"
    /\ allResults' = MapPut(allResults, wloc[w].result.ImageURL, wloc[w].result)
    /\ origin' = MapPut(origin, wloc[w].result.ImageURL, wjob[w][1].idx)
    /\ inflight' = inflight \ {wjob[w][1].idx}
    /\ wjob' = [wjob EXCEPT ![w] = Tail(@)]
    /\ wloc' = [wloc EXCEPT ![w] = NoLocals]
    /\ wpc' = [wpc EXCEPT ![w] = "range"]
    /\ UNCHANGED <<mainVars, callVars, imageURLs, numWorkers, mpc, spawned, sent, jobs, jobsClosed,
                   results, resultsClosed, wg, collectWg, cpc, collected, calls>>

\* a send on an unbuffered results channel: it waits for the collector
WorkerSendUnbuffered(w) ==
    /\ wpc[w] = "send"
    /\ ~resultsClosed
    /\ cpc = "loop"
    /\ results = <<>>
    /\ results' = Append(results, [res |-> wloc[w].result, idx |-> wjob[w][1].idx])
    /\ inflight' = inflight \ {wjob[w][1].idx}
    /\ wjob' = [wjob EXCEPT ![w] = Tail(@)]
    /\ wloc' = [wloc EXCEPT ![w] = NoLocals]
    /\ wpc' = [wpc EXCEPT ![w] = "range"]
    /\ UNCHANGED <<mainVars, callVars, imageURLs, numWorkers, mpc, spawned, sent, jobs, jobsClosed,
                   resultsClosed, allResults, origin, wg, collectWg, cpc,
                   collected, calls>>

\* main.go:245: results <- result
WorkerSend(w) ==
    /\ wpc[w] = "send"
    /\ ~resultsClosed
    /\ Len(results) < ChanCap(numJobs)
    /\ results' = Append(results, [res |-> wloc[w].result, idx |-> wjob[w][1].idx])
    /\ inflight' = inflight \ {wjob[w][1].idx}
    /\ wjob' = [wjob EXCEPT ![w] = Tail(@)]
    /\ wloc' = [wloc EXCEPT ![w] = NoLocals]
    /\ wpc' = [wpc EXCEPT ![w] = "range"]
    /\ UNCHANGED <<mainVars, callVars, imageURLs, numWorkers, mpc, spawned, sent, jobs, jobsClosed,
                   resultsClosed, allResults, origin, wg, collectWg, cpc,
                   collected, calls>>

Worker(w) ==
    \/ WorkerRecv(w)
    \/ WorkerExit(w)
    \/ WorkerParse(w)
    \/ WorkerGetImageID(w)
    \/ WorkerGetVulnerabilities(w)
    \/ WorkerSend(w)

Next ==
    \/ Main
    \/ Collector
    \/ \E w \in WorkerIds : Worker(w)

Spec == Init /\ [][Next]_vars

\* the Go scheduler does not leave every runnable goroutine waiting for ever,
\* and a remote call returns (the client has a timeout): some step that can
\* be taken is taken
FairSpec == Spec /\ WF_vars(Next)

\* ------------------------------------------------------------------------
\* One processImage call on its own, against a client whose two requests
\* get any of the responses below
\* ------------------------------------------------------------------------

\* values of the manifest_digest field of a tag-detail response
ManifestDigests ==
    {Nil, <<"m", "1">>, Sha256Prefix \o <<"m", "1">>, Sha256Prefix}

\* values of the docker_image_id field of a tag-detail response
ImageIDs == {Nil, <<"i", "1">>, Sha256Prefix \o <<"i", "1">>}

\* a response body one byte longer than the snippet doRequest reads
LongBody == [k \in 1..(SnippetLen + 1) |-> "x"]

\* responses that are not a decodable 200: not found, a server error, a
\* server error whose body quotes another status, a server error with a
\* long body, a success without content, a body that is not JSON, and no
\* response at all
ErrorResponses ==
    {HTTPResponse(404, <<" Not Found">>, <<"{", "missing", "}">>, Nil),
     HTTPResponse(204, <<" No Content">>, Nil, Nil),
     HTTPResponse(500, <<" Internal Server Error">>, <<"{", "boom", "}">>, Nil),
     HTTPResponse(500, <<" Internal Server Error">>,
                  <<"upstream: ", "status ", "404">>, Nil),
     HTTPResponse(500, <<" Internal Server Error">>, LongBody, Nil),
     HTTPResponse(200, <<" OK">>, <<"<html>">>, Nil),
     TransportError(<<"connection refused">>)}

TagResponses ==
    {HTTPResponse(200, <<" OK">>, <<"{tag}">>, <<TagDetail(m, i)>>) :
        m \in ManifestDigests, i \in ImageIDs}
    \cup {HTTPResponse(201, <<" Created">>, <<"{tag}">>,
                       <<TagDetail(<<"m", "1">>, Nil)>>)}
    \cup ErrorResponses

Reports ==
    {SecurityReport("scanned",
        <<Feature("openssl", <<Vulnerability("CVE-2021-1234", "High")>>)>>),
     SecurityReport("queued", <<>>),
     SecurityReport("failed", <<>>)}

SecurityResponses ==
    {HTTPResponse(200, <<" OK">>, <<"{report}">>, <<r>>) : r \in Reports}
    \cup {HTTPResponse(201, <<" Created">>, <<"{report}">>,
                       <<SecurityReport("queued", <<>>)>>)}
    \cup ErrorResponses

\* the reference is prefix \o body
CallPrefixes == {QuayPrefix, Nil}

CallBodies == {<<"a", ":", "1">>, <<"a">>, <<"a", ".", ".", ":", "1">>}

\* the argument imageURL of the call
ImageURLOf(in) == in.prefix \o in.body

NoReturn == [fn |-> "none", ret |-> Nil]

\* the worker pool is not running
PoolIdle ==
    /\ imageURLs = <<>>
    /\ numWorkers = 1
    /\ mpc = "none"
    /\ spawned = 0
    /\ sent = 0
    /\ jobs = <<>>
    /\ jobsClosed = FALSE
    /\ results = <<>>
    /\ resultsClosed = FALSE
    /\ allResults = [k \in {} |-> NoLocals.result]
    /\ origin = [k \in {} |-> 0]
    /\ wg = 0
    /\ collectWg = 0
    /\ wpc = [w \in WorkerIds |-> "unstarted"]
    /\ wjob = [w \in WorkerIds |-> <<>>]
    /\ wloc = [w \in WorkerIds |-> NoLocals]
    /\ cpc = "unstarted"
    /\ collected = 0
    /\ calls = <<>>
    /\ inflight = {}

poolVars == <<imageURLs, numWorkers, mpc, spawned, sent, jobs, jobsClosed,
              results, resultsClosed, allResults, origin, wg, collectWg, wpc,
              wjob, wloc, cpc, collected, calls, inflight>>

ProcessInit ==
    /\ PoolIdle
    /\ MainIdle
    /\ callIn \in [prefix : CallPrefixes, body : CallBodies,
                   tagResp : TagResponses, secResp : SecurityResponses]
    /\ callPc = "process"
    /\ callLoc = NoLocals
    /\ callRet = NoReturn
    /\ callLog = <<>>

\* where the call goes after a step
AfterCall(l) == IF l.next = "return" THEN "done" ELSE l.next

\* main.go:253-259
CallParse ==
    /\ callPc = "process"
    /\ callRet' = [fn |-> "parseImageURL", ret |-> parseImageURL(ImageURLOf(callIn))]
    /\ callLoc' = processImageParse(ImageURLOf(callIn))
    /\ callPc' = AfterCall(callLoc')
    /\ UNCHANGED <<mainVars, poolVars, callIn, callLog>>

\* main.go:261-271
CallGetImageID ==
    /\ callPc = "getid"
    /\ callLog' = Append(callLog,
                         [fn |-> "GetImageID", repo |-> callLoc.repo, arg |-> callLoc.tag])
    /\ callRet' = [fn  |-> "GetImageID",
                   ret |-> GetImageIDGiven(callLoc.repo, callLoc.tag, callIn.tagResp)]
    /\ callLoc' = processImageAfterGetID(callLoc, callRet'.ret)
    /\ callPc' = AfterCall(callLoc')
    /\ UNCHANGED <<mainVars, poolVars, callIn>>

\* main.go:273-284
CallGetVulnerabilities ==
    /\ callPc = "getvuln"
    /\ callLog' = Append(callLog,
                         [fn |-> "GetVulnerabilities", repo |-> callLoc.repo,
                          arg |-> callLoc.imageID])
    /\ callRet' = [fn  |-> "GetVulnerabilities",
                   ret |-> GetVulnerabilitiesGiven(callLoc.repo, callLoc.imageID,
                                                   callIn.secResp)]
    /\ callLoc' = processImageAfterGetVulns(callLoc, callRet'.ret)
    /\ callPc' = AfterCall(callLoc')
    /\ UNCHANGED <<mainVars, poolVars, callIn>>

ProcessNext == CallParse \/ CallGetImageID \/ CallGetVulnerabilities

ProcessSpec == ProcessInit /\ [][ProcessNext]_vars

\* ------------------------------------------------------------------------
\* parseImageURL on its own, on every string prefix \o body over a small
\* alphabet
\* ------------------------------------------------------------------------

\* longest body of a reference handed to parseImageURL
MaxBody == 4

ParseAlphabet == {"a", ":", ".", "/"}

ParsePrefixes ==
    {QuayPrefix,
     Nil,
     <<"q", "u", "a", "y", ".", "i", "o">>,
     <<"d", "o", "c", "k", "e", "r", ".", "i", "o", "/">>}

ParseInit ==
    /\ PoolIdle
    /\ MainIdle
    /\ callIn \in [prefix : ParsePrefixes, body : BoundedSeqs(ParseAlphabet, MaxBody),
                   tagResp : {TransportError(Nil)}, secResp : {TransportError(Nil)}]
    /\ callPc = "parse"
    /\ callLoc = NoLocals
    /\ callRet = NoReturn
    /\ callLog = <<>>

\* main.go:289-308
ParseCall ==
    /\ callPc = "parse"
    /\ callRet' = [fn |-> "parseImageURL", ret |-> parseImageURL(ImageURLOf(callIn))]
    /\ callPc' = "done"
    /\ UNCHANGED <<mainVars, poolVars, callIn, callLoc, callLog>>

ParseNext == ParseCall

ParseSpec == ParseInit /\ [][ParseNext]_vars

\* ------------------------------------------------------------------------
\* main: the process from its command line to its exit status
\* ------------------------------------------------------------------------

\* values of -image: none, and a reference that does not parse
MainImages == {Nil, RefBad}

MainFiles == {Nil, <<"images", ".JSON">>, <<"images", ".yaml">>, <<"images", ".txt">>}

MainFormats == {<<"json">>, <<"human">>, <<"xml">>}

MainTokens == {Nil, <<"flagtoken">>}

\* values of -workers
WorkerFlags == {-1, 0} \cup (1..MaxWorkers)

\* a command line flag.Parse rejects, and every combination of flag values
CommandLines ==
    {CommandLine("bad", Nil, Nil, <<"human">>, Nil, 5)}
    \cup {CommandLine("ok", i, f, o, t, n) :
            i \in MainImages, f \in MainFiles, o \in MainFormats,
            t \in MainTokens, n \in WorkerFlags}

ConfigFiles ==
    {ConfigFile("missing", {}, Nil, 0, Nil),
     ConfigFile("unreadable", {}, Nil, 0, Nil),
     ConfigFile("unparsable", {}, Nil, 0, Nil),
     ConfigFile("yaml", {"api_base_url", "timeout_seconds", "user_agent"}, Nil, 0, Nil),
     ConfigFile("yaml", {"api_base_url", "timeout_seconds"},
                <<"https://", "quay.example/api/v1">>, 30, Nil),
     ConfigFile("yaml", {"api_base_url"}, <<":", "bad">>, 0, Nil)}

InputFiles ==
    {InputFile(<<"no such file or directory">>, FALSE, FALSE, <<>>),
     InputFile(Nil, FALSE, FALSE, <<>>),
     InputFile(Nil, TRUE, FALSE, <<>>),
     InputFile(Nil, TRUE, TRUE, <<>>),
     InputFile(Nil, TRUE, TRUE, <<RefB, RefA>>)}

Environments ==
    [QUAY_TOKEN : {<<"envtoken">>}, configFile : ConfigFiles,
     inputFile : InputFiles, stdoutWritable : BOOLEAN]

CallIdle ==
    /\ callIn = Nil
    /\ callPc = "none"
    /\ callLoc = NoLocals
    /\ callRet = Nil
    /\ callLog = <<>>

MainInit ==
    /\ PoolIdle
    /\ CallIdle
    /\ osArgs \in CommandLines
    /\ osEnv \in Environments
    /\ mainPc = "parseFlags"
    /\ mainLoc = NoMainLocals
    /\ mainLog = <<>>
    /\ exitCode = Running
    /\ stderr = <<>>
    /\ stdout = <<>>
    /\ quayClient = Nil

Usage == <<"Usage: quay-scanner [options]">>

\* build.sh:56-61 (main.go:38-43)
MainParseFlags ==
    /\ mainPc = "parseFlags"
    /\ mainLog' = Append(mainLog, "parseFlags")
    /\ LET r == parseFlags(osArgs, osEnv)
       IN  IF r.exit # Running
           THEN /\ stderr' = stderr \o <<"flag provided but not defined">> \o Usage
                /\ exitCode' = r.exit
                /\ mainPc' = "exited"
                /\ mainLoc' = mainLoc
           ELSE IF r.err # Nil
           THEN /\ stderr' = stderr \o <<"Configuration error: ">> \o r.err \o Usage
                /\ exitCode' = 1
                /\ mainPc' = "exited"
                /\ mainLoc' = mainLoc
           ELSE /\ stderr' = stderr
                /\ exitCode' = exitCode
                /\ mainPc' = "LoadConfig"
                /\ mainLoc' = [mainLoc EXCEPT !.cliCfg = r.cfg]
    /\ UNCHANGED <<poolVars, callVars, osArgs, osEnv, stdout, quayClient>>

\* build.sh:66-73
MainLoadConfig ==
    /\ mainPc = "LoadConfig"
    /\ mainLog' = Append(mainLog, "LoadConfig")
    /\ LET r == LoadConfig(osEnv.configFile)
       IN  IF r.err # Nil
           THEN /\ stderr' = stderr \o r.out
                                \o <<"Error processing configuration file: ">> \o r.err
                /\ exitCode' = 1
                /\ mainPc' = "exited"
                /\ mainLoc' = mainLoc
           ELSE /\ stderr' = stderr \o r.out
                /\ exitCode' = exitCode
                /\ mainPc' = "loadImageURLs"
                /\ mainLoc' = [mainLoc EXCEPT !.appCfg = r.cfg]
    /\ UNCHANGED <<poolVars, callVars, osArgs, osEnv, stdout, quayClient>>

\* a main that does not look at the length of the list
MainLoadImageURLsAllowsEmpty ==
    /\ mainPc = "loadImageURLs"
    /\ mainLog' = Append(mainLog, "loadImageURLs")
    /\ LET r == loadImageURLs(mainLoc.cliCfg, osEnv.inputFile)
       IN  IF r.err # Nil
           THEN /\ stderr' = stderr \o <<"Error loading image URLs: ">> \o r.err
                /\ exitCode' = 1
                /\ mainPc' = "exited"
                /\ mainLoc' = mainLoc
           ELSE /\ stderr' = stderr
                /\ exitCode' = exitCode
                /\ mainPc' = "NewClient"
                /\ mainLoc' = [mainLoc EXCEPT !.imageURLs = r.urls]
    /\ UNCHANGED <<poolVars, callVars, osArgs, osEnv, stdout, quayClient>>

\* build.sh:79-88 (main.go:49-58)
MainLoadImageURLs ==
    /\ mainPc = "loadImageURLs"
    /\ mainLog' = Append(mainLog, "loadImageURLs")
    /\ LET r == loadImageURLs(mainLoc.cliCfg, osEnv.inputFile)
       IN  IF r.err # Nil
           THEN /\ stderr' = stderr \o <<"Error loading image URLs: ">> \o r.err
                /\ exitCode' = 1
                /\ mainPc' = "exited"
                /\ mainLoc' = mainLoc
           ELSE IF Len(r.urls) = 0
           THEN /\ stderr' = stderr \o
                      <<"Error: No image URLs specified or found in the input file.">>
                /\ exitCode' = 1
                /\ mainPc' = "exited"
                /\ mainLoc' = mainLoc
           ELSE /\ stderr' = stderr
                /\ exitCode' = exitCode
                /\ mainPc' = "NewClient"
                /\ mainLoc' = [mainLoc EXCEPT !.imageURLs = r.urls]
    /\ UNCHANGED <<poolVars, callVars, osArgs, osEnv, stdout, quayClient>>

\* a main that goes on without looking at the error of NewClient
MainNewClientIgnoresError ==
    /\ mainPc = "NewClient"
    /\ mainLog' = Append(mainLog, "NewClient")
    /\ LET r == NewClient(mainLoc.appCfg.APIBaseURL, mainLoc.cliCfg.Token,
                          GetTimeout(mainLoc.appCfg), mainLoc.appCfg.UserAgent)
       IN  /\ quayClient' = IF r.err # Nil THEN DefaultClient ELSE r.client
           /\ mainPc' = "runWorkerPool"
    /\ UNCHANGED <<poolVars, callVars, osArgs, osEnv, mainLoc, exitCode, stderr, stdout>>

\* build.sh:92-101 (main.go:62-66)
MainNewClient ==
    /\ mainPc = "NewClient"
    /\ mainLog' = Append(mainLog, "NewClient")
    /\ LET r == NewClient(mainLoc.appCfg.APIBaseURL, mainLoc.cliCfg.Token,
                          GetTimeout(mainLoc.appCfg), mainLoc.appCfg.UserAgent)
       IN  IF r.err # Nil
           THEN /\ stderr' = stderr \o <<"Error creating Quay client: ">> \o r.err
                /\ exitCode' = 1
                /\ mainPc' = "exited"
                /\ quayClient' = quayClient
           ELSE /\ stderr' = stderr
                /\ exitCode' = exitCode
                /\ mainPc' = "runWorkerPool"
                /\ quayClient' = r.client
    /\ UNCHANGED <<poolVars, callVars, osArgs, osEnv, mainLoc, stdout>>

\* build.sh:105 (main.go:70): runWorkerPool is entered, its locals are made
MainRunWorkerPool ==
    /\ mainPc = "runWorkerPool"
    /\ mainLog' = Append(mainLog, "runWorkerPool")
    /\ mainPc' = "pool"
    /\ imageURLs' = mainLoc.imageURLs
    /\ numWorkers' = mainLoc.cliCfg.NumWorkers
    /\ calls' = [k \in 1..Len(mainLoc.imageURLs) |-> NoCalls]
    /\ mpc' = "start"
    /\ UNCHANGED <<callVars, osArgs, osEnv, mainLoc, exitCode, stderr, stdout,
                   quayClient, spawned, sent, jobs, jobsClosed, results,
                   resultsClosed, allResults, origin, wg, collectWg, wpc, wjob,
                   wloc, cpc, collected, inflight>>

\* build.sh:109-116 (main.go:74-81): the results are written and main returns
MainOutputResults ==
    /\ mainPc = "pool"
    /\ mpc = "returned"
    /\ mainLog' = Append(mainLog, "outputResults")
    /\ mainPc' = "exited"
    /\ LET r == outputResults(allResults, mainLoc.cliCfg.OutputFormat,
                              osEnv.stdoutWritable)
       IN  /\ stdout' = stdout \o r.out
           /\ stderr' = IF r.err # Nil
                        THEN stderr \o <<"Error formatting output: ">> \o r.err
                        ELSE stderr
           /\ exitCode' = IF r.err # Nil THEN 1 ELSE 0
    /\ UNCHANGED <<poolVars, callVars, osArgs, osEnv, mainLoc, quayClient>>

MainNext ==
    \/ MainParseFlags
    \/ MainLoadConfig
    \/ MainLoadImageURLs
    \/ MainNewClient
    \/ MainRunWorkerPool
    \/ Next
    \/ MainOutputResults

MainSpec == MainInit /\ [][MainNext]_vars

\* ------------------------------------------------------------------------
\* Properties of runWorkerPool
\* ------------------------------------------------------------------------

\* the reference strings that occur in the input
InputRefs == {imageURLs[k] : k \in 1..Len(imageURLs)}

\* the input index of the last-submitted occurrence of a reference
LastIndexOf(ref) ==
    CHOOSE k \in 1..Len(imageURLs) :
        /\ imageURLs[k] = ref
        /\ \A j \in (k + 1)..Len(imageURLs) : imageURLs[j] # ref

NoDuplicates == \A j, k \in 1..Len(imageURLs) : imageURLs[j] = imageURLs[k] => j = k

\* processing the reference on its own yields a report and no error
Succeeds(ref) == processImage(ref).Report # Nil /\ processImage(ref).Error = Nil

Returned == mpc = "returned"

\* C1: the map runWorkerPool returns has exactly the input's reference
\* strings as keys; the entry under a key has that key as ImageURL and
\* carries a report or a non-empty error.
C1_EveryReferenceHasItsResult ==
    Returned =>
        /\ DOMAIN allResults = InputRefs
        /\ \A key \in DOMAIN allResults :
              /\ allResults[key].ImageURL = key
              /\ (allResults[key].Report # Nil \/ allResults[key].Error # Nil)

C1_Witness ==
    /\ Returned
    /\ Len(imageURLs) = 2
    /\ \E key \in DOMAIN allResults : allResults[key].Report # Nil
    /\ \E key \in DOMAIN allResults : allResults[key].Error # Nil

\* C2: the number of entries of the returned map is the number of distinct
\* reference strings of the input, for W <= N and for W > N.
C2_EntriesEqualDistinctRefs ==
    Returned => Cardinality(DOMAIN allResults) = Cardinality(InputRefs)

C2_Witness ==
    /\ Returned
    /\ Len(imageURLs) = 2
    /\ imageURLs[1] = imageURLs[2]
    /\ numWorkers = 2
    /\ Cardinality(DOMAIN allResults) = 1

\* C3: under fair scheduling of the caller, the workers and the collector,
\* runWorkerPool eventually returns.
C3_EventuallyReturns == <>Returned

C3_Witness ==
    /\ Returned
    /\ wg = 0
    /\ collectWg = 0
    /\ numJobs >= 1
    /\ numWorkers >= 2

\* C4: runWorkerPool returns only when every task has been processed, every
\* started worker has exited and the collector has received all N results
\* and finished; after the return the map is not written any more.
C4_ReturnsOnlyWhenComplete ==
    /\ [](Returned =>
            /\ \A k \in 1..numJobs : calls[k].processImage = 1
            /\ \A w \in 1..numWorkers : wpc[w] = "exited"
            /\ collected = numJobs
            /\ cpc = "done"
            /\ results = <<>>
            /\ inflight = {})
    /\ [][Returned => allResults' = allResults]_vars

C4_Witness ==
    /\ Returned
    /\ numJobs = 2
    /\ collected = 2
    /\ \A w \in 1..numWorkers : wpc[w] = "exited"

\* C5: a reference whose processing fails takes nothing away from the
\* others: every task is processed exactly once, the map has one entry per
\* distinct reference, and every reference that succeeds on its own has a
\* report and no error in the map.
C5_FailureIsolation ==
    Returned =>
        /\ \A k \in 1..numJobs : calls[k].processImage = 1
        /\ Cardinality(DOMAIN allResults) = Cardinality(InputRefs)
        /\ \A ref \in InputRefs :
              Succeeds(ref) =>
                  /\ ref \in DOMAIN allResults
                  /\ allResults[ref].Report # Nil
                  /\ allResults[ref].Error = Nil

C5_Witness ==
    /\ Returned
    /\ \E ref \in InputRefs : ~Succeeds(ref) /\ allResults[ref].Error # Nil
    /\ \E ref \in InputRefs :
          Succeeds(ref) /\ allResults[ref].Report # Nil /\ allResults[ref].Error = Nil

\* C6: at most W tasks are in flight, and a worker holds at most one
\* reference at a time.
C6_InFlightBounded ==
    /\ Cardinality(inflight) <= numWorkers
    /\ \A w \in WorkerIds : Len(wjob[w]) <= 1

C6_Witness ==
    /\ numWorkers = 1
    /\ Cardinality(inflight) = 1
    /\ jobs # <<>>

\* C7: only a step of the one collector goroutine changes the map (no
\* worker and no caller step does), and the caller gets past
\* collectWg.Wait() only once the collector has finished.
C7_SingleWriter ==
    /\ [][allResults' # allResults =>
            /\ cpc = "loop"
            /\ collected' = collected + 1
            /\ wpc' = wpc
            /\ mpc' = mpc]_vars
    /\ [](collectWg <= 1)
    /\ [](mpc \in {"closeResults", "returned"} => cpc = "done")

C7_Witness ==
    /\ cpc = "loop"
    /\ collected = 1
    /\ DOMAIN allResults # {}
    /\ \E w \in WorkerIds : wpc[w] = "send"

\* C8 as claimed: for a reference that occurs more than once, the entry
\* kept is the result of its last-submitted occurrence, for every W.
C8_LastSubmittedWins ==
    Returned => \A key \in DOMAIN origin : origin[key] = LastIndexOf(key)

\* C8 as amended: the entry kept under a key is the result of one of the
\* occurrences of that key (the one the collector received last); with a
\* single worker it is the last-submitted occurrence.
C8_LastReceivedWins ==
    Returned =>
        \A key \in DOMAIN origin :
            /\ origin[key] \in 1..numJobs
            /\ imageURLs[origin[key]] = key
            /\ (numWorkers = 1 => origin[key] = LastIndexOf(key))

C8_Witness ==
    /\ Returned
    /\ numWorkers = 1
    /\ Len(imageURLs) = 2
    /\ imageURLs[1] = imageURLs[2]
    /\ origin[imageURLs[1]] = 2

\* C9 as claimed: for N = 0 no worker is invoked.
C9_NoWorkerInvoked ==
    numJobs = 0 => \A w \in WorkerIds : wpc[w] = "unstarted"

\* C9 as amended: for N = 0 no worker ever processes a reference or makes a
\* remote call (the W workers are started and exit), nothing is sent on
\* either channel, and the map returned is empty.
C9_EmptyInputEmptyMap ==
    numJobs = 0 =>
        /\ \A w \in WorkerIds :
              /\ wpc[w] \in {"unstarted", "range", "exited"}
              /\ wjob[w] = <<>>
              /\ wloc[w] = NoLocals
        /\ jobs = <<>>
        /\ results = <<>>
        /\ DOMAIN allResults = {}
        /\ (Returned => \A w \in 1..numWorkers : wpc[w] = "exited")

C9_Witness ==
    /\ numJobs = 0
    /\ Returned
    /\ numWorkers = 2
    /\ DOMAIN allResults = {}

\* C10: for an input without duplicates the map returned is determined by
\* the input and the remote responses: it maps every input reference to the
\* result of processing that reference alone, whatever the interleaving and
\* the worker count.
C10_ResultIsFunctionOfInput ==
    (Returned /\ NoDuplicates) =>
        allResults = [ref \in InputRefs |-> processImage(ref)]

C10_Witness ==
    /\ Returned
    /\ NoDuplicates
    /\ Len(imageURLs) = 2
    /\ numWorkers = 2
    /\ origin[imageURLs[1]] = 1
    /\ origin[imageURLs[2]] = 2

\* ------------------------------------------------------------------------
\* Properties of processImage and of the client
\* ------------------------------------------------------------------------

\* what each callee returns for the call's input
ParsedIn == parseImageURL(ImageURLOf(callIn))

DigestIn == GetImageIDGiven(ParsedIn.repo, ParsedIn.tag, callIn.tagResp)

ReportIn == GetVulnerabilitiesGiven(ParsedIn.repo, DigestIn.digest, callIn.secResp)

Got404(resp) == resp.neterr = Nil /\ resp.status = 404

\* C11: a result processImage returns has a report or an error, never
\* both and never neither.
C11_ReportXorError ==
    callPc = "done" =>
        ~((callLoc.result.Report # Nil) <=> (callLoc.result.Error # Nil))

C11_Witness ==
    /\ callPc = "done"
    /\ callRet.fn = "GetVulnerabilities"
    /\ callRet.ret.err # Nil
    /\ callLoc.result.Error # Nil
    /\ callLoc.result.Report = Nil

\* C12: when the reference parses, GetImageID returns a non-empty digest d
\* without error and GetVulnerabilities a report r without error, the result
\* has the input as ImageURL, r as Report and no Error, and the two calls
\* made were GetImageID(repo, tag) and GetVulnerabilities(repo, d).
C12_FullSuccess ==
    (/\ callPc = "done"
     /\ ParsedIn.err = Nil
     /\ DigestIn.err = Nil
     /\ DigestIn.digest # Nil
     /\ ReportIn.err = Nil) =>
        /\ callLoc.result = ImageScanResult(ImageURLOf(callIn), ReportIn.report, Nil)
        /\ ReportIn.report # Nil
        /\ callLog = <<[fn |-> "GetImageID", repo |-> ParsedIn.repo, arg |-> ParsedIn.tag],
                       [fn |-> "GetVulnerabilities", repo |-> ParsedIn.repo,
                        arg |-> DigestIn.digest]>>

C12_Witness ==
    /\ callPc = "done"
    /\ callIn.tagResp.json = <<TagDetail(Sha256Prefix \o <<"m", "1">>, Nil)>>
    /\ Len(callLog) = 2
    /\ callLog[2].arg = <<"m", "1">>
    /\ callLoc.result.Error = Nil
    /\ callLoc.result.Report # Nil
    /\ callLoc.result.Report[1].Status = "scanned"
    /\ callLoc.result.Report[1].Data.Layer.Features[1].Vulnerabilities[1].Name
          = "CVE-2021-1234"

\* C13: a 404 on the tag-detail request makes GetImageID fail with the
\* tag-not-found error, not the generic wrapper, and the result has no
\* report and an error that carries the tag-not-found text.
C13_TagNotFound ==
    (callRet.fn = "GetImageID" /\ Got404(callIn.tagResp)) =>
        /\ callRet.ret.digest = Nil
        /\ Contains(callRet.ret.err, <<"' not found in repository '">>)
        /\ ~Contains(callRet.ret.err, <<"failed to get tag details for ">>)
        /\ callPc = "done"
        /\ callLoc.result.Report = Nil
        /\ Contains(callLoc.result.Error, <<"' not found in repository '">>)

C13_Witness ==
    /\ callRet.fn = "GetImageID"
    /\ Got404(callIn.tagResp)
    /\ callPc = "done"
    /\ HasPrefix(callLoc.result.Error, <<"Getting image ID failed: ", "tag '">>)

\* C14: when the digest is resolved and the security request gets a 404,
\* GetVulnerabilities fails with the report-not-found error and no report,
\* and the result has an error and no report.
C14_ReportNotFound ==
    (callRet.fn = "GetVulnerabilities" /\ Got404(callIn.secResp)) =>
        /\ callRet.ret.report = Nil
        /\ Contains(callRet.ret.err, <<"security information not found for image digest '">>)
        /\ callPc = "done"
        /\ callLoc.result.Error # Nil
        /\ callLoc.result.Report = Nil

C14_Witness ==
    /\ callRet.fn = "GetVulnerabilities"
    /\ Got404(callIn.secResp)
    /\ DigestIn.digest = <<"i", "1">>
    /\ HasPrefix(callLoc.result.Error, <<"Getting vulnerabilities failed: ">>)

C16_StrictPipeline ==
    /\ Len(callLog) <= 2
    /\ Len(callLog) >= 1 => callLog[1].fn = "GetImageID" /\ ParsedIn.err = Nil
    /\ Len(callLog) = 2 =>
          /\ callLog[2].fn = "GetVulnerabilities"
          /\ DigestIn.err = Nil
          /\ DigestIn.digest # Nil
    /\ callPc = "done" =>
          /\ ParsedIn.err # Nil => callLog = <<>>
          /\ (ParsedIn.err = Nil /\ (DigestIn.err # Nil \/ DigestIn.digest = Nil))
                => Len(callLog) = 1
          /\ callLoc.result.Error = Nil => Len(callLog) = 2

C16_Witness ==
    /\ callPc = "done"
    /\ Len(callLog) = 2
    /\ callLog[1].fn = "GetImageID"
    /\ callLog[2].fn = "GetVulnerabilities"
    /\ callLoc.result.Error = Nil

\* ------------------------------------------------------------------------
\* Properties of parseImageURL
\* ------------------------------------------------------------------------

DotDot == <<".", ".">>

\* the ImageReference invariant: both parts non-empty, no ".." in either,
\* no '/' in the tag
ValidReference(repo, tag) ==
    /\ repo # Nil
    /\ tag # Nil
    /\ ~Contains(repo, DotDot)
    /\ ~Contains(tag, DotDot)
    /\ ~Contains(tag, <<"/">>)

\* the conditions of a well-formed reference, stated on the string: it
\* starts with the prefix and its first ':' after the prefix has a valid
\* repository before it and a valid tag after it
WellFormed(url) ==
    /\ HasPrefix(url, QuayPrefix)
    /\ \E k \in (Len(QuayPrefix) + 1)..Len(url) :
          /\ url[k] = ":"
          /\ \A j \in (Len(QuayPrefix) + 1)..(k - 1) : url[j] # ":"
          /\ ValidReference(SubSeq(url, Len(QuayPrefix) + 1, k - 1),
                            SubSeq(url, k + 1, Len(url)))

\* C17: a string that does not begin with "quay.io/" makes parseImageURL
\* fail with the bad-prefix error and empty repo and tag, whatever else is
\* wrong with it.
C17_BadPrefixFirst ==
    (callPc = "done" /\ callRet.fn = "parseImageURL"
     /\ ~HasPrefix(ImageURLOf(callIn), QuayPrefix)) =>
        callRet.ret = [repo |-> Nil, tag |-> Nil, err |-> ErrBadPrefix]

C17_Witness ==
    /\ callPc = "done"
    /\ callIn.prefix = <<"q", "u", "a", "y", ".", "i", "o">>
    /\ callIn.body = <<".", ".", ":", "/">>
    /\ callRet.ret.err = ErrBadPrefix

\* C18: for "quay.io/" + R + ":" + T with R non-empty and free of ':' and
\* "..", and T non-empty and free of ".." and '/', parseImageURL returns
\* (R, T) and a nil error; a later colon stays in the tag.
C18_SplitOnFirstColon ==
    (callPc = "done" /\ callRet.fn = "parseImageURL") =>
        LET url == ImageURLOf(callIn)
        IN  \A k \in 1..Len(url) :
                LET R == SubSeq(url, Len(QuayPrefix) + 1, k - 1)
                    T == SubSeq(url, k + 1, Len(url))
                IN  (/\ HasPrefix(url, QuayPrefix)
                     /\ k > Len(QuayPrefix)
                     /\ url[k] = ":"
                     /\ ~Contains(R, <<":">>)
                     /\ ValidReference(R, T)) =>
                        callRet.ret = [repo |-> R, tag |-> T, err |-> Nil]

C18_Witness ==
    /\ callPc = "done"
    /\ callIn.prefix = QuayPrefix
    /\ callIn.body = <<"a", ":", "a", ":">>
    /\ callRet.ret = [repo |-> <<"a">>, tag |-> <<"a", ":">>, err |-> Nil]

\* C19: parseImageURL returns a nil error exactly for the well-formed
\* strings; a pair returned with a nil error satisfies the ImageReference
\* invariant, and a failure returns an error and no pair that satisfies it.
C19_SucceedsIffWellFormed ==
    (callPc = "done" /\ callRet.fn = "parseImageURL") =>
        /\ (callRet.ret.err = Nil) <=> WellFormed(ImageURLOf(callIn))
        /\ callRet.ret.err = Nil => ValidReference(callRet.ret.repo, callRet.ret.tag)
        /\ callRet.ret.err # Nil => ~ValidReference(callRet.ret.repo, callRet.ret.tag)

C19_Witness ==
    /\ callPc = "done"
    /\ callIn.prefix = QuayPrefix
    /\ callIn.body = <<"a", ":", "a", "/">>
    /\ callRet.ret.err = ErrInvalidChars
    /\ callRet.ret.repo = <<"a">>

\* ------------------------------------------------------------------------
\* Properties of GetImageID
\* ------------------------------------------------------------------------

\* v is the field value f without a leading "sha256:"
Stripped(f, v) ==
    IF HasPrefix(f, Sha256Prefix) THEN f = Sha256Prefix \o v ELSE f = v

\* C20: after a tag-detail response that was decoded, GetImageID returns
\* the manifest_digest when it is non-empty, else the docker_image_id when
\* that is non-empty, else the digest-not-found error; the value returned
\* has lost a leading "sha256:".
C20_DigestPreference ==
    (/\ callRet.fn = "GetImageID"
     /\ callIn.tagResp.neterr = Nil
     /\ callIn.tagResp.status = 200
     /\ callIn.tagResp.json # Nil) =>
        LET tagDetail == callIn.tagResp.json[1]
        IN  IF tagDetail.ManifestDigest # Nil
            THEN /\ callRet.ret.err = Nil
                 /\ Stripped(tagDetail.ManifestDigest, callRet.ret.digest)
            ELSE IF tagDetail.ImageID # Nil
            THEN /\ callRet.ret.err = Nil
                 /\ Stripped(tagDetail.ImageID, callRet.ret.digest)
            ELSE /\ callRet.ret.digest = Nil
                 /\ Contains(callRet.ret.err,
                             <<"could not determine image digest for tag '">>)

C20_Witness ==
    /\ callRet.fn = "GetImageID"
    /\ callIn.tagResp.json = <<TagDetail(Nil, Sha256Prefix \o <<"i", "1">>)>>
    /\ callRet.ret = [digest |-> <<"i", "1">>, err |-> Nil]

\* C21: a nil error from GetImageID comes with a non-empty digest, and
\* processImage never ends in its empty-digest branch.
C21_DigestNonEmpty ==
    /\ (callRet.fn = "GetImageID" /\ callRet.ret.err = Nil)
          => callRet.ret.digest # Nil
    /\ callPc = "done"
          => ~HasPrefix(callLoc.result.Error, <<"Could not find image ID for tag '">>)

\* ------------------------------------------------------------------------
\* Properties of GetVulnerabilities on a failed request
\* ------------------------------------------------------------------------

\* what follows "Body snippet: " in an error of doRequest
SnippetOf(err) ==
    SubSeq(err, Index(err, ". Body snippet: ") + 1, Len(err))

\* C22: a response with a non-2xx status other than 404 makes
\* GetVulnerabilities return no report and an error that carries the status
\* of the response and a snippet of its body of at most 512 bytes.
C22_RequestFailedCarriesStatus ==
    (/\ callRet.fn = "GetVulnerabilities"
     /\ callIn.secResp.neterr = Nil
     /\ callIn.secResp.status \notin 200..299
     /\ callIn.secResp.status # 404) =>
        /\ callRet.ret.report = Nil
        /\ Contains(callRet.ret.err,
                    <<"status ", StatusCode(callIn.secResp.status)>>
                        \o callIn.secResp.reason)
        /\ Index(callRet.ret.err, ". Body snippet: ") # 0
        /\ Len(SnippetOf(callRet.ret.err)) <= SnippetLen
        /\ HasPrefix(callIn.secResp.body, SnippetOf(callRet.ret.err))

\* ------------------------------------------------------------------------
\* Properties of main
\* ------------------------------------------------------------------------

\* the command line cannot be parsed by flag.Parse
FlagsUnparsable == osArgs.syntax # "ok"

\* the flag values fail the validation of parseFlags
FlagsRejected ==
    /\ osArgs.syntax = "ok"
    /\ \/ osArgs.ImageURL = Nil /\ osArgs.InputFile = Nil
       \/ osArgs.ImageURL # Nil /\ osArgs.InputFile # Nil
       \/ osArgs.OutputFormat \notin {<<"json">>, <<"human">>}
       \/ osArgs.NumWorkers <= 0

ConfigUnusable == osEnv.configFile.state \in {"unreadable", "unparsable"}

InputUnusable ==
    /\ osArgs.ImageURL = Nil
    /\ osArgs.InputFile # Nil
    /\ \/ osEnv.inputFile.readErr # Nil
       \/ ~osEnv.inputFile.valid
       \/ osArgs.InputFile[Len(osArgs.InputFile)] = ".txt"

ClientUnusable ==
    /\ osEnv.configFile.state = "yaml"
    /\ osEnv.configFile.api_base_url # Nil
    /\ osEnv.configFile.api_base_url[1] = ":"

\* an error that is fatal to the whole run
Fatal ==
    FlagsUnparsable \/ FlagsRejected \/ ConfigUnusable \/ InputUnusable \/ ClientUnusable

\* no worker was started and no remote call was made
NoWorkYet ==
    /\ mpc = "none"
    /\ spawned = 0
    /\ \A w \in WorkerIds : wpc[w] = "unstarted"
    /\ \A k \in DOMAIN calls : calls[k] = NoCalls

\* main has called runWorkerPool
PoolEntered == \E k \in 1..Len(mainLog) : mainLog[k] = "runWorkerPool"

\* some image of the run ended with an error
TaskError == \E k \in DOMAIN allResults : allResults[k].Error # Nil

\* C23 as stated: a fatal error (flags, configuration file, input file,
\* client construction) is reported and ends the process with status 1
\* before a worker is started or a remote call made; inside runWorkerPool
\* nothing ends the process.
C23_FatalExitsWithOne ==
    /\ Fatal => (~PoolEntered /\ mainPc # "runWorkerPool" /\ NoWorkYet)
    /\ (Fatal /\ mainPc = "exited") => (exitCode = 1 /\ stderr # <<>>)
    /\ mainPc = "pool" => exitCode = Running

\* C23: a fatal error is reported and ends the process with a non-zero
\* status, 2 when flag.Parse rejects the command line and 1 otherwise, before
\* a worker is started or a remote call made; inside runWorkerPool nothing
\* ends the process, and after it only a failed write of the output does.
C23_FatalExitsBeforeWork ==
    /\ Fatal => (~PoolEntered /\ mainPc # "runWorkerPool" /\ NoWorkYet)
    /\ (Fatal /\ mainPc = "exited") =>
          /\ exitCode = IF FlagsUnparsable THEN 2 ELSE 1
          /\ stderr # <<>>
    /\ mainPc = "pool" => exitCode = Running
    /\ (PoolEntered /\ mainPc = "exited" /\ exitCode # 0) =>
          /\ ~osEnv.stdoutWritable
          /\ osArgs.OutputFormat = <<"json">>
          /\ Contains(stderr, <<"Error formatting output: ">>)
    /\ (mainPc = "exited" /\ PoolEntered) =>
          /\ mpc = "returned"
          /\ \A k \in 1..Len(imageURLs) : imageURLs[k] \in DOMAIN allResults

C23_Witness ==
    /\ mainPc = "exited"
    /\ ClientUnusable
    /\ ~FlagsUnparsable
    /\ exitCode = 1
    /\ mainLog = <<"parseFlags", "LoadConfig", "loadImageURLs", "NewClient">>
    /\ Contains(stderr, <<"Error creating Quay client: ">>)

\* C24: whenever invalid input, a network error, a non-200 response or a
\* JSON decoding error occurs during a run, the process ends with a non-zero
\* status.
C24_ErrorsExitNonZero ==
    (mainPc = "exited" /\ (Fatal \/ TaskError)) => exitCode # 0

\* C25: runWorkerPool is never entered with a worker count below 1; a
\* -workers value below 1 is rejected by parseFlags with a configuration
\* error, and main exits with nothing else called.
C25_WorkersPositive ==
    /\ mpc # "none" => numWorkers >= 1
    /\ (osArgs.syntax = "ok" /\ osArgs.NumWorkers <= 0 /\ mainPc # "parseFlags") =>
          /\ mainPc = "exited"
          /\ exitCode = 1
          /\ HasPrefix(stderr, <<"Configuration error: ">>)
          /\ mainLog = <<"parseFlags">>
          /\ quayClient = Nil
          /\ NoWorkYet
    /\ (/\ osArgs.syntax = "ok" /\ osArgs.NumWorkers <= 0 /\ mainPc # "parseFlags"
        /\ (osArgs.ImageURL = Nil) # (osArgs.InputFile = Nil)
        /\ osArgs.OutputFormat \in {<<"json">>, <<"human">>}) =>
          Contains(stderr, <<"-workers must be a positive number">>)

C25_Witness ==
    /\ mainPc = "exited"
    /\ osArgs.NumWorkers = 0
    /\ osArgs.ImageURL = RefBad
    /\ osArgs.InputFile = Nil
    /\ osArgs.OutputFormat = <<"json">>
    /\ stderr = <<"Configuration error: ", "-workers must be a positive number">> \o Usage

\* the client NewClient returns for the configuration main has loaded
ClientOfMain ==
    NewClient(mainLoc.appCfg.APIBaseURL, mainLoc.cliCfg.Token,
              GetTimeout(mainLoc.appCfg), mainLoc.appCfg.UserAgent).client

\* C26: while the workers run, no step changes the shared client: its
\* BaseURL, Token, UserAgent and timeout stay as NewClient set them, and the
\* result of every image is the one processImage gives for it on its own.
C26_ClientReadOnly ==
    [][mainPc = "pool" =>
          /\ quayClient' = quayClient
          /\ quayClient = ClientOfMain
          /\ \A k \in DOMAIN allResults : allResults[k] = processImage(k)
          /\ \A k \in 1..Len(results) :
                results[k].res = processImage(results[k].res.ImageURL)]_vars

C26_Witness ==
    /\ mainPc = "pool"
    /\ mpc = "returned"
    /\ numWorkers = 2
    /\ quayClient = <<[BaseURL   |-> <<"https://", "quay.example/api/v1", "/">>,
                       Timeout   |-> 30,
                       Token     |-> <<"envtoken">>,
                       UserAgent |-> <<"golang-quay-vuln-scanner/1.1">>]>>
    /\ calls[1].GetImageID = 1
    /\ calls[2].GetVulnerabilities = 1
    /\ Contains(allResults[RefB].Error, <<"' not found in repository '">>)

\* ------------------------------------------------------------------------
\* Properties of the two channels of runWorkerPool
\* ------------------------------------------------------------------------

\* C27: the jobs channel is closed once, by the step that leaves the send
\* loop with all N references sent, and nothing is sent on it afterwards; a
\* worker exits only when the channel is closed and empty; when
\* runWorkerPool returns, every one of the W workers has exited.
C27_CloseAfterAllSent ==
    [][/\ jobsClosed' # jobsClosed =>
             (~jobsClosed /\ sent = numJobs /\ mpc = "send" /\ mpc' # "send")
       /\ (mpc \notin {"start", "send"}) => (mpc' # "send" /\ jobsClosed)
       /\ jobsClosed => (sent' = sent /\ Len(jobs') <= Len(jobs))
       /\ \A w \in WorkerIds :
             (wpc[w] # "exited" /\ wpc'[w] = "exited") => (jobsClosed /\ jobs = <<>>)
       /\ mpc' = "returned" =>
             (jobsClosed' /\ \A w \in 1..numWorkers : wpc'[w] = "exited")]_vars

C27_Witness ==
    /\ mpc = "returned"
    /\ numWorkers = 2
    /\ numJobs = 1
    /\ jobsClosed
    /\ wpc[1] = "exited"
    /\ wpc[2] = "exited"

\* the workers that hold the job of input index k
HoldersOf(k) == {w \in WorkerIds : \E p \in 1..Len(wjob[w]) : wjob[w][p].idx = k}

\* how often the job or the result of input index k is somewhere on its way
PlacesOf(k) ==
    Cardinality({p \in 1..Len(jobs) : jobs[p].idx = k})
    + Cardinality(HoldersOf(k))
    + Cardinality({p \in 1..Len(results) : results[p].idx = k})

\* C28: every occurrence sent is received by one worker and processed once;
\* when runWorkerPool returns, processImage has run N times, N results were
\* sent and the collector has received N.
C28_ExactlyOnce ==
    /\ \A w \in WorkerIds : Len(wjob[w]) <= 1
    /\ \A k \in 1..numJobs :
          /\ calls[k].processImage <= 1
          /\ PlacesOf(k) <= 1
          /\ k > sent => PlacesOf(k) = 0
    /\ Len(jobs) + Cardinality({w \in WorkerIds : wjob[w] # <<>>})
          + Len(results) + collected = sent
    /\ mpc = "returned" =>
          /\ sent = numJobs
          /\ collected = numJobs
          /\ results = <<>>
          /\ \A k \in 1..numJobs : calls[k].processImage = 1

C28_Witness ==
    /\ mpc = "returned"
    /\ numJobs = 2
    /\ numWorkers = 2
    /\ collected = 2
    /\ calls[1].processImage = 1
    /\ calls[2].processImage = 1

\* C29: the buffer of the jobs channel never holds more than N jobs, and a
\* send of the producer is possible whenever the producer is at it, whatever
\* the workers have done.
C29_ProducerNeverBlocks ==
    /\ Len(jobs) <= numJobs
    /\ (mpc = "send" /\ sent < numJobs) => ENABLED MainSendJob

C29_Witness ==
    /\ mpc = "send"
    /\ numJobs = 2
    /\ sent = 2
    /\ Len(jobs) = 2
    /\ \A w \in 1..numWorkers : wpc[w] = "range" /\ wjob[w] = <<>>

\* input index k has been taken from the jobs channel
Dequeued(k) == k <= sent /\ \A p \in 1..Len(jobs) : jobs[p].idx # k

\* C30: the jobs are taken from the channel in the order of the input: an
\* index has been taken only if every smaller index has been taken.
C30_DequeuedInOrder ==
    \A i, j \in 1..numJobs : (i < j /\ Dequeued(j)) => Dequeued(i)

\* the result of the second reference reaches the collector before the
\* result of the first
C30_Witness ==
    /\ numJobs = 2
    /\ Dequeued(1)
    /\ Dequeued(2)
    /\ collected = 1
    /\ imageURLs[1] # imageURLs[2]
    /\ imageURLs[2] \in DOMAIN allResults
    /\ imageURLs[1] \notin DOMAIN allResults

\* ------------------------------------------------------------------------
\* Properties of processImage on a failed parse and on an empty digest
\* ------------------------------------------------------------------------

\* C31 (as stated): when parsing the reference fails, the result's Error is
\* exactly "parsing failed: " followed by the parser's cause, its Report is
\* absent and no remote call has been issued.
C31_ParsingFailedText ==
    (callPc = "done" /\ callRet.fn = "parseImageURL" /\ callRet.ret.err # Nil) =>
        /\ callLoc.result.Error = <<"parsing failed: ">> \o callRet.ret.err
        /\ callLoc.result.Report = Nil
        /\ callLog = <<>>

\* C31 (amended): when parsing the reference fails, the result's Error is
\* exactly "Parsing URL failed: " followed by the parser's cause, its Report
\* is absent and no remote call has been issued.
C31_ParsingURLFailedText ==
    /\ (callRet.fn = "parseImageURL" /\ callRet.ret.err # Nil) => callPc = "done"
    /\ (callPc = "done" /\ ParsedIn.err # Nil) =>
          /\ callRet.fn = "parseImageURL"
          /\ callRet.ret.err = ParsedIn.err
          /\ callLoc.result.ImageURL = ImageURLOf(callIn)
          /\ callLoc.result.Error = <<"Parsing URL failed: ">> \o callRet.ret.err
          /\ callLoc.result.Report = Nil
          /\ callLog = <<>>

C31_Witness ==
    /\ callPc = "done"
    /\ callRet.fn = "parseImageURL"
    /\ callRet.ret.err = ErrInvalidChars
    /\ callLoc.result.Error = <<"Parsing URL failed: ">> \o ErrInvalidChars
    /\ callLoc.result.Report = Nil
    /\ callLog = <<>>

\* C32: when GetImageID returns an empty digest and a nil error,
\* processImage ends with a non-empty Error and no Report, and
\* GetVulnerabilities is not called: no call of GetVulnerabilities ever has
\* an empty digest for its argument.
C32_EmptyDigestIsFailure ==
    /\ (/\ callRet.fn = "GetImageID"
        /\ callRet.ret.err = Nil
        /\ callRet.ret.digest = Nil) =>
          /\ callPc = "done"
          /\ callLoc.result.Error # Nil
          /\ callLoc.result.Report = Nil
          /\ Len(callLog) = 1
    /\ \A k \in 1..Len(callLog) :
          callLog[k].fn = "GetVulnerabilities" => callLog[k].arg # Nil

C32_Witness ==
    /\ callPc = "done"
    /\ callRet.fn = "GetImageID"
    /\ callRet.ret.err = Nil
    /\ callRet.ret.digest = Nil
    /\ HasPrefix(callLoc.result.Error, <<"Could not find image ID for tag '">>)
    /\ callLoc.result.Report = Nil
    /\ Len(callLog) = 1
    /\ callLog[1].fn = "GetImageID"

\* ------------------------------------------------------------------------
\* Properties of the client on the status of a response
\* ------------------------------------------------------------------------

TagNotFound(err) == Contains(err, <<"' not found in repository '">>)

ReportNotFound(err) == HasPrefix(err, <<"security information not found for image digest '">>)

\* C35: GetImageID returns the tag-not-found error, and GetVulnerabilities
\* the report-not-found error, if and only if the status of the response
\* was 404: no response with another status, whatever its body, and no
\* transport or decoding error is reported as not-found.
C35_NotFoundIffStatus404 ==
    /\ callRet.fn = "GetImageID" =>
          (TagNotFound(callRet.ret.err) <=> Got404(callIn.tagResp))
    /\ callRet.fn = "GetVulnerabilities" =>
          (ReportNotFound(callRet.ret.err) <=> Got404(callIn.secResp))

\* C36: a request succeeds, and its body is decoded, only on status 200:
\* every other status, 201 and 204 included, gives a request-failed error
\* that names the status and leaves the target undecoded.
C36_OnlyStatusOKDecodes ==
    /\ callRet.fn = "GetImageID" =>
          LET resp == callIn.tagResp
              r    == doRequest(TagPath(callLoc.repo, callLoc.tag), resp)
          IN  /\ callRet.ret.err = Nil =>
                    resp.neterr = Nil /\ resp.status = 200 /\ resp.json # Nil
              /\ r.err = Nil <=>
                    (resp.neterr = Nil /\ resp.status = 200 /\ resp.json # Nil)
              /\ (resp.neterr = Nil /\ resp.status # 200) =>
                    /\ r.target = Nil
                    /\ HasPrefix(r.err, <<"API request to ">>)
                    /\ Contains(r.err, <<" failed with ", "status ",
                                         StatusCode(resp.status)>> \o resp.reason)
                    /\ callRet.ret.digest = Nil
                    /\ callRet.ret.err # Nil
    /\ callRet.fn = "GetVulnerabilities" =>
          LET resp == callIn.secResp
              r    == doRequest(SecurityPath(callLoc.repo, callLoc.imageID), resp)
          IN  /\ callRet.ret.err = Nil =>
                    resp.neterr = Nil /\ resp.status = 200 /\ resp.json # Nil
              /\ r.err = Nil <=>
                    (resp.neterr = Nil /\ resp.status = 200 /\ resp.json # Nil)
              /\ (resp.neterr = Nil /\ resp.status # 200) =>
                    /\ r.target = Nil
                    /\ HasPrefix(r.err, <<"API request to ">>)
                    /\ Contains(r.err, <<" failed with ", "status ",
                                         StatusCode(resp.status)>> \o resp.reason)
                    /\ callRet.ret.report = Nil
                    /\ callRet.ret.err # Nil

\* GetImageID has got 201 with a decodable tag detail and has failed
C36_Witness ==
    /\ callRet.fn = "GetImageID"
    /\ callIn.tagResp.neterr = Nil
    /\ callIn.tagResp.status = 201
    /\ callIn.tagResp.json # Nil
    /\ callRet.ret.digest = Nil
    /\ Contains(callRet.ret.err, <<"status ", "201", " Created">>)
    /\ callPc = "done"
    /\ callLoc.result.Report = Nil

\* ------------------------------------------------------------------------
\* Properties of the results channel
\* ------------------------------------------------------------------------

\* C33: the results channel is closed only once the collector has received
\* all N results and finished and every worker has exited; no worker is at
\* a send and the collector is not at a receive when the channel is closed,
\* nothing is sent or received after the close, neither channel is closed a
\* second time, and every entry of the map is the result of an input
\* reference stored under that reference.
C33_ResultsClosedLast ==
    /\ [][/\ resultsClosed' # resultsClosed =>
                /\ ~resultsClosed
                /\ mpc = "closeResults"
                /\ mpc' = "returned"
                /\ jobsClosed
                /\ collected = numJobs
                /\ cpc = "done"
                /\ results = <<>>
                /\ spawned = numWorkers
                /\ \A w \in 1..numWorkers : wpc[w] = "exited"
          /\ resultsClosed =>
                /\ resultsClosed'
                /\ results' = results
                /\ collected' = collected
                /\ allResults' = allResults
          /\ jobsClosed => jobsClosed']_vars
    /\ [](resultsClosed =>
            /\ mpc = "returned"
            /\ cpc = "done"
            /\ \A w \in WorkerIds : wpc[w] \in {"unstarted", "exited"})
    /\ [](mpc = "closeResults" => ~resultsClosed)
    /\ [](mpc \in {"start", "send"} => ~jobsClosed)
    /\ [](\A key \in DOMAIN allResults :
            /\ key \in InputRefs
            /\ allResults[key].ImageURL = key)

C33_Witness ==
    /\ resultsClosed
    /\ jobsClosed
    /\ mpc = "returned"
    /\ numJobs = 2
    /\ numWorkers = 2
    /\ collected = 2
    /\ cpc = "done"
    /\ results = <<>>
    /\ Cardinality(DOMAIN allResults) = 2

\* C34: the results channel never holds more than N results, no more than
\* N results are ever sent, and a worker that is at its send can send,
\* whatever the collector has done.
C34_WorkerNeverBlocksOnSend ==
    /\ Len(results) <= numJobs
    /\ Len(results) + collected <= numJobs
    /\ \A w \in WorkerIds : wpc[w] = "send" => ENABLED WorkerSend(w)

\* both workers have sent and exited before the collector exists
C34_Witness ==
    /\ numJobs = 2
    /\ numWorkers = 2
    /\ Len(results) = 2
    /\ collected = 0
    /\ cpc = "unstarted"
    /\ wpc[1] = "exited"
    /\ wpc[2] = "exited"

\* ------------------------------------------------------------------------
\* Properties of main on an empty list
\* ------------------------------------------------------------------------

\* the command line names an input file that is read and parsed and gives
\* no reference
EmptyInput ==
    /\ osArgs.ImageURL = Nil
    /\ osArgs.InputFile # Nil
    /\ osEnv.inputFile.readErr = Nil
    /\ osEnv.inputFile.valid
    /\ osArgs.InputFile[Len(osArgs.InputFile)] # ".txt"
    /\ (~osEnv.inputFile.hasImages \/ osEnv.inputFile.images = <<>>)

Logged(fn) == \E k \in 1..Len(mainLog) : mainLog[k] = fn

\* C37: runWorkerPool is never called with an empty list: when the list
\* loaded is empty (the images key of the input file missing or null, or its
\* list empty), main writes an error, exits with status 1, and has created
\* no client, started no worker and made no remote call.
C37_NeverEmptyPool ==
    /\ PoolEntered => (Len(imageURLs) >= 1 /\ numJobs >= 1)
    /\ mpc # "none" => numJobs >= 1
    /\ (EmptyInput /\ Logged("loadImageURLs")) =>
          /\ mainPc = "exited"
          /\ exitCode = 1
          /\ Contains(stderr,
                 <<"Error: No image URLs specified or found in the input file.">>)
          /\ ~Logged("NewClient")
          /\ quayClient = Nil
          /\ ~PoolEntered
          /\ NoWorkYet
          /\ stdout = Nil

\* the input file has no images key
C37_Witness ==
    /\ EmptyInput
    /\ ~osEnv.inputFile.hasImages
    /\ mainPc = "exited"
    /\ exitCode = 1
    /\ mainLog = <<"parseFlags", "LoadConfig", "loadImageURLs">>
    /\ quayClient = Nil

====
